---- MODULE Spec2Model ----
(***************************************************************************)
(* Memory-management core of ReasonOS: the kernel heap (boundary-tag       *)
(* explicit free list, memory/heap.rs, over the intrusive lists of         *)
(* data_structures/linked_list.rs), the page-frame allocator               *)
(* (memory/pmm.rs), the page tables (arch/x86_64/paging.rs) and the        *)
(* virtual memory manager (memory/vmm.rs).                                 *)
(*                                                                         *)
(* Memory is modelled at the granularity the allocator itself reads and    *)
(* writes it: block headers (hdr), and the next/prev words of free-list    *)
(* nodes (nxt, prv), each keyed by the address of the cell.  Cells are     *)
(* never erased: what the allocator wrote stays in memory until the        *)
(* allocator overwrites it (stores of the heap's clients into their        *)
(* payloads are not modelled).                                             *)
(***************************************************************************)
EXTENDS Integers, Sequences, FiniteSets, TLC

VARIABLES
    regions,    \* ExplicitFreeList.regions: the HeapRegion records, in list order
    hdr,        \* memory: address -> BlockHeader stored there
    nxt,        \* memory: node address -> DoublyLinkedListNode.next
    prv,        \* memory: node address -> DoublyLinkedListNode.prev
    cursor,     \* VirtualMemoryManager.current_address
    status,     \* "running", "panicked" (panic!/assert), "hung" (a loop that never ends)
    live,       \* ghost: allocations returned and not freed since
    last,       \* ghost: the last heap call and what it returned
    memmap,     \* the firmware memory map handed to BitmapAllocator::new
    bitmaps,    \* per entry: the Bitmap header stored at the entry's base
    bits,       \* per entry: the indexes whose bit is 1 in the memory at Bitmap.data
    outstanding,\* ghost: frames returned by allocate_page and not freed since
    pmLast,     \* ghost: the last PMM call and what it returned
    badFrees,   \* ghost: the free_page calls so far whose address was not an outstanding frame
    overflow_checks, \* the build: TRUE when integer overflow panics (debug), FALSE when it wraps
    tables,     \* physical memory holding page tables: frame -> index -> entry (absent = 0)
    pgLast,     \* ghost: the last paging call, what it wrote and in which order
    vmRegions,  \* VirtualMemoryManager.regions: head, tail and length of the list
    vmNodes,    \* memory: address -> SinglyLinkedListNode<VirtualMemoryRegion> stored there
    vmLast,     \* ghost: the last VMM call and what it returned
    path,       \* the call in progress: its position and the lock guards alive
    cell,       \* a OnceCellMutex<T>: the OnceCell and the Mutex stored in it
    cellLast,   \* ghost: the last OnceCellMutex call and the cell it met
    heapLimit   \* the machine: the pages of memory there are to back the heap

heapVars == <<regions, hdr, nxt, prv, cursor, live, last, heapLimit>>
pmmVars == <<memmap, bitmaps, bits, outstanding, pmLast, badFrees, overflow_checks>>
pagingVars == <<tables, pgLast>>
vmmVars == <<vmRegions, vmNodes, vmLast>>
miscVars == <<path, cell, cellLast>>
vars == <<regions, hdr, nxt, prv, cursor, status, live, last,
          memmap, bitmaps, bits, outstanding, pmLast, badFrees, overflow_checks,
          tables, pgLast, vmRegions, vmNodes, vmLast,
          path, cell, cellLast, heapLimit>>

-----------------------------------------------------------------------------
(* Program constants *)

PAGE_SIZE == 4096

\* size!(BlockHeader): u32 + bool under repr(align(8))
BLOCK_HEADER_SIZE == 8

\* size!(DoublyLinkedListNode<Block>): next, prev and the zero-sized Block
LIST_NODE_SIZE == 16

\* offset of DoublyLinkedListNode<Block>.data (repr(C): after next and prev)
NODE_DATA_OFFSET == 16

NEXT_PTR_SIZE == 8

\* size!(HeapRegion): total_allocated + DoublyLinkedList {head, tail, length}
HEAP_REGION_SIZE == 32

\* vmm NODE_SIZE: size!(SinglyLinkedListNode<VirtualMemoryRegion>)
NODE_SIZE == 32

\* kernel_heap_start.  The kernel is linked in the higher half, so the real
\* value is above 2^63; the model keeps what the code depends on (it is page
\* aligned and far larger than any payload size) in a value TLC can hold.
KERNEL_HEAP_START == 262144 * PAGE_SIZE

\* mem::size_of::<Bitmap>(): three usize and a pointer
BITMAP_SIZE == 32

\* usize::MAX, what 0 - 1 wraps to without overflow checks.  The real value
\* is 2^64 - 1; the model keeps that it is larger than every page count.
USIZE_MAX == (2 ^ 30) + ((2 ^ 30) - 1)

\* Option::None of a NonNull pointer (the null niche)
None == 0

-----------------------------------------------------------------------------
(* Bounds of the model *)

\* physical pages the heap may get from the PMM before allocate_page fails
MaxHeapPages == 2

\* blocks ever bumped off a region's end
MaxBlocks == 3

\* free_page calls with an address that is not an outstanding frame
MaxBadFrees == 2

\* alloc/free rounds on one address that are told apart
MaxChain == 3

\* paging calls in one behaviour
MaxPagingCalls == 4

\* frames callers hold for their pages at one time
MaxDataFrames == 2
MaxLockPages == 2
MaxEdgePages == 18
MaxCellValue == 3
MaxCellCalls == 4

\* request sizes of alloc: the free-list node size, one above it, and one for
\* which a fresh one-page region is too small (size + NODE_SIZE fits the
\* page, the block does not)
Sizes == {16, 40, 4048}
EdgeSizes == {0, 65536}
OddSizes == {16, 17}
FitSizes == {16, PAGE_SIZE - 120, 4048}

\* request sizes of alloc_aligned
AlignedSizes == {16, 4048}

\* alignments of alloc_aligned
Aligns == {64, 4096}

\* what the memory of a bit array may hold when the firmware hands it over
\* (install never clears it): zeroes, or a 1 at index 3
InitialBits == {{}, {3}}

\* what the padding half of an Option<(NonNull<Block>, u64)> that is None
\* may hold when it is read anyway; -1 stands for the build trapping
UBOutcomes == {-1, 4}

-----------------------------------------------------------------------------
(* misc/utils.rs *)

align_up(addr, align) == ((addr + align - 1) \div align) * align

Max(a, b) == IF a >= b THEN a ELSE b

div_ceil(a, b) == (a + b - 1) \div b

-----------------------------------------------------------------------------
(* The heap as a value: what the operations below take and return *)

HeapState ==
    [regions |-> regions, hdr |-> hdr, nxt |-> nxt, prv |-> prv,
     cursor |-> cursor, status |-> status, ret |-> None, block |-> None,
     limit |-> heapLimit, debug_assertions |-> overflow_checks]

\* a write of one cell
Store(f, a, v) == [x \in (DOMAIN f) \cup {a} |-> IF x = a THEN v ELSE f[x]]

\* a pointer chase that takes more steps than there are nodes never ends
Fuel(S) == Cardinality(DOMAIN S.nxt) + 1

(* HeapRegionPtr *)

RegionGetAddress(r) == r.start + NODE_SIZE + NEXT_PTR_SIZE

RegionGetPayloadAddress(r) == RegionGetAddress(r) + HEAP_REGION_SIZE

RegionGetEndAddress(r) ==
    LET object == RegionGetAddress(r) - NEXT_PTR_SIZE - (NODE_SIZE - NEXT_PTR_SIZE)
        beginning_address == object - NEXT_PTR_SIZE
    IN  beginning_address + r.length

RegionGetCurrentAddress(r) == RegionGetPayloadAddress(r) + r.total_allocated

(* BlockPtr *)

BlockGetPayloadAddress(block) == block + BLOCK_HEADER_SIZE

install_headers(S, block, header) ==
    LET right_header == block + BLOCK_HEADER_SIZE + header.size
    IN  [S EXCEPT !.hdr = Store(Store(S.hdr, block, header), right_header, header)]

set_is_used(S, block, value) ==
    LET left == S.hdr[block]
        right_header == block + BLOCK_HEADER_SIZE + left.size
        h1 == Store(S.hdr, block, [left EXCEPT !.is_used = value])
    IN  [S EXCEPT !.hdr = Store(h1, right_header, [h1[right_header] EXCEPT !.is_used = value])]

-----------------------------------------------------------------------------
(* DoublyLinkedList, on the free_blocks of region i *)

append_to_address(S, i, address) ==
    LET r == S.regions[i]
        n0 == Store(S.nxt, address, None)
        p0 == Store(S.prv, address, None)
    IN  IF r.tail = None
        THEN [S EXCEPT !.nxt = n0, !.prv = p0,
                       !.regions[i].head = address,
                       !.regions[i].tail = address,
                       !.regions[i].length_ = r.length_ + 1]
        ELSE LET p1 == Store(p0, address, r.tail)
                 n1 == Store(n0, address, None)
                 n2 == Store(n1, r.tail, address)
             IN  [S EXCEPT !.nxt = n2, !.prv = p1,
                           !.regions[i].tail = address,
                           !.regions[i].length_ = r.length_ + 1]

\* a broken add_to_free_list: marks the block free and leaves it off the list
add_to_free_list_unlisted(S, i, block) == set_is_used(S, block, FALSE)

\* remove_from_free_list's closure: node.ptr_to_data() == block
compare(node, block) == node + NODE_DATA_OFFSET = block

\* the node the while loop of remove stops at: "hang", None or a node
RECURSIVE RemoveStop(_, _, _, _)
RemoveStop(S, node, block, fuel) ==
    IF node = None THEN [kind |-> "end"]
    ELSE IF fuel = 0 THEN [kind |-> "hang"]
    ELSE IF compare(node, block) THEN RemoveStop(S, S.nxt[node], block, fuel - 1)
    ELSE [kind |-> "node", node |-> node]

remove(S, i, block) ==
    LET r == S.regions[i] IN
    IF r.length_ = 0 THEN [S EXCEPT !.status = "panicked"]
    ELSE LET stop == RemoveStop(S, r.head, block, Fuel(S)) IN
         IF stop.kind = "hang" THEN [S EXCEPT !.status = "hung"]
         ELSE IF stop.kind = "end" THEN S
         ELSE LET node_ptr == stop.node
                  previous_node == S.prv[node_ptr]
                  next_node == S.nxt[node_ptr]
                  S1 == IF previous_node = None /\ next_node = None
                        THEN [S EXCEPT !.regions[i].head = None,
                                       !.regions[i].tail = None]
                        ELSE IF previous_node # None /\ next_node # None
                        THEN LET n1 == Store(S.nxt, previous_node, next_node)
                             IN  [S EXCEPT !.nxt = n1,
                                           !.prv = Store(S.prv, next_node, previous_node)]
                        ELSE IF previous_node = None
                        THEN [S EXCEPT !.regions[i].head = next_node,
                                       !.prv = Store(S.prv, next_node, None)]
                        ELSE [S EXCEPT !.regions[i].tail = previous_node,
                                       !.nxt = Store(S.nxt, previous_node, None)]
              IN  [S1 EXCEPT !.regions[i].length_ = r.length_ - 1]

add_to_free_list(S, i, block) ==
    set_is_used(append_to_address(S, i, BlockGetPayloadAddress(block)), block, FALSE)

remove_from_free_list(S, i, block) == remove(S, i, block)

-----------------------------------------------------------------------------
(* VirtualMemoryManager::allocate_region, as the heap's allocate_region uses it *)

vmm_allocate_region(S, size) ==
    LET pages == div_ceil(size + NODE_SIZE, PAGE_SIZE)
        mapped == (S.cursor - KERNEL_HEAP_START) \div PAGE_SIZE
    IN  IF mapped + pages > S.limit
        THEN [S EXCEPT !.status = "panicked"]
        ELSE [S EXCEPT !.cursor = S.cursor + pages * PAGE_SIZE,
                       !.regions = Append(S.regions,
                           [start |-> S.cursor, length |-> pages * PAGE_SIZE,
                            total_allocated |-> 0,
                            head |-> None, tail |-> None, length_ |-> 0])]

allocate_region(S, size) == vmm_allocate_region(S, size)

\* total_allocated grows by the payload and one header only
allocate_block_short(S, i, size) ==
    LET r == S.regions[i]
        current_address == RegionGetCurrentAddress(r)
        size_ == Max(size, LIST_NODE_SIZE)
    IN  IF current_address + 2 * BLOCK_HEADER_SIZE + size_ > RegionGetEndAddress(r)
        THEN [ok |-> FALSE, S |-> S, block |-> None, padding |-> 0]
        ELSE [ok |-> TRUE,
              S |-> install_headers(
                        [S EXCEPT !.regions[i].total_allocated =
                                      r.total_allocated + BLOCK_HEADER_SIZE + size_],
                        current_address, [size |-> size_, is_used |-> TRUE]),
              block |-> current_address, padding |-> 0]

\* allocate_block and allocate_block_aligned on region i: ok = FALSE is None
allocate_block(S, i, size) ==
    LET r == S.regions[i]
        current_address == RegionGetCurrentAddress(r)
        size_ == Max(size, LIST_NODE_SIZE)
        total_size == 2 * BLOCK_HEADER_SIZE + size_
    IN  IF S.debug_assertions /\ current_address % 8 # 0
        THEN [ok |-> FALSE, S |-> [S EXCEPT !.status = "panicked"],
              block |-> None, padding |-> 0]
        ELSE IF current_address + total_size > RegionGetEndAddress(r)
        THEN [ok |-> FALSE, S |-> S, block |-> None, padding |-> 0]
        ELSE [ok |-> TRUE,
              S |-> install_headers(
                        [S EXCEPT !.regions[i].total_allocated = r.total_allocated + total_size],
                        current_address, [size |-> size_, is_used |-> TRUE]),
              block |-> current_address, padding |-> 0]

allocate_block_aligned(S, i, size, alignment) ==
    LET r == S.regions[i]
        current_address == RegionGetCurrentAddress(r)
        payload_address == current_address + BLOCK_HEADER_SIZE
        padding == align_up(payload_address, alignment) - payload_address
    IN  [allocate_block(S, i, size) EXCEPT !.padding = padding]

-----------------------------------------------------------------------------
(* ExplicitFreeList::alloc and alloc_aligned *)

\* where the searches start: the first node of the first region
FirstHead(S) == IF Len(S.regions) = 0 THEN None ELSE S.regions[1].head

\* the free-list search of alloc: regions from i on, the nodes of region i from node on
RECURSIVE AllocSearch(_, _, _, _, _)
AllocSearch(S, size, i, node, fuel) ==
    IF i > Len(S.regions) THEN [kind |-> "none"]
    ELSE IF node = None
    THEN IF i + 1 > Len(S.regions) THEN [kind |-> "none"]
         ELSE AllocSearch(S, size, i + 1, S.regions[i + 1].head, Fuel(S))
    ELSE IF fuel = 0 THEN [kind |-> "hang"]
    ELSE LET block == node - BLOCK_HEADER_SIZE IN
         IF ~S.hdr[block].is_used /\ S.hdr[block].size >= size
         THEN [kind |-> "found", region |-> i, block |-> block]
         ELSE AllocSearch(S, size, i, S.nxt[node], fuel - 1)

\* the free-list search of alloc_aligned
RECURSIVE AlignedSearch(_, _, _, _, _, _)
AlignedSearch(S, size, alignment, i, node, fuel) ==
    IF i > Len(S.regions) THEN [kind |-> "none"]
    ELSE IF node = None
    THEN IF i + 1 > Len(S.regions) THEN [kind |-> "none"]
         ELSE AlignedSearch(S, size, alignment, i + 1, S.regions[i + 1].head, Fuel(S))
    ELSE IF fuel = 0 THEN [kind |-> "hang"]
    ELSE LET block == node - BLOCK_HEADER_SIZE
             aligned_address == align_up(BlockGetPayloadAddress(block), alignment)
             padding == aligned_address - S.hdr[block].size
         IN  IF ~S.hdr[block].is_used /\ S.hdr[block].size >= size + padding
             THEN [kind |-> "found", region |-> i, block |-> block, padding |-> padding]
             ELSE AlignedSearch(S, size, alignment, i, S.nxt[node], fuel - 1)

\* the bump path of alloc (aligned = FALSE) and of alloc_aligned (aligned = TRUE);
\* ub is what unwrap_unchecked on None yields
Bump(S, size, alignment, aligned, ub) ==
    LET S1 == IF Len(S.regions) = 0 THEN allocate_region(S, size) ELSE S IN
    IF S1.status # "running" THEN S1
    ELSE LET a == IF aligned
                  THEN allocate_block_aligned(S1, Len(S1.regions), size, alignment)
                  ELSE allocate_block(S1, Len(S1.regions), size)
         IN  IF a.S.status # "running" THEN a.S
             ELSE IF a.ok
             THEN [a.S EXCEPT !.ret = BlockGetPayloadAddress(a.block) + a.padding,
                              !.block = a.block]
             ELSE LET S2 == allocate_region(S1, size) IN
                  IF S2.status # "running" THEN S2
                  ELSE LET b == IF aligned
                                THEN allocate_block_aligned(S2, Len(S2.regions), size, alignment)
                                ELSE allocate_block(S2, Len(S2.regions), size)
                       IN  IF b.S.status # "running" THEN b.S
                           ELSE IF b.ok
                           THEN [b.S EXCEPT !.ret = BlockGetPayloadAddress(b.block) + b.padding,
                                            !.block = b.block]
                           ELSE IF ub < 0 THEN [S2 EXCEPT !.status = "panicked"]
                           ELSE [S2 EXCEPT !.ret = BlockGetPayloadAddress(None)
                                                   + (IF aligned THEN ub ELSE 0)]

alloc(S, size, ub) ==
    LET f == AllocSearch(S, size, 1, FirstHead(S), Fuel(S))
    IN  IF f.kind = "hang" THEN [S EXCEPT !.status = "hung"]
        ELSE IF f.kind = "found"
        THEN [remove_from_free_list(set_is_used(S, f.block, TRUE), f.region, f.block)
                 EXCEPT !.ret = BlockGetPayloadAddress(f.block), !.block = f.block]
        ELSE Bump(S, size, 1, FALSE, ub)

alloc_aligned(S, size, alignment, ub) ==
    LET f == AlignedSearch(S, size, alignment, 1, FirstHead(S), Fuel(S))
    IN  IF f.kind = "hang" THEN [S EXCEPT !.status = "hung"]
        ELSE IF f.kind = "found"
        THEN [set_is_used(S, f.block, TRUE)
                 EXCEPT !.ret = BlockGetPayloadAddress(f.block) + f.padding,
                        !.block = f.block]
        ELSE Bump(S, size, alignment, TRUE, ub)

-----------------------------------------------------------------------------
(* ExplicitFreeList::free *)

\* the body of the block loop, for the block whose payload holds the address
FreeBlock(S, i, block) ==
    LET r == S.regions[i]
        block_size == S.hdr[block].size
        block_start_address == block
        block_end_address == block_start_address + block_size + 2 * BLOCK_HEADER_SIZE
        prev_block ==
            LET header_address == block_start_address - BLOCK_HEADER_SIZE IN
            IF header_address < RegionGetPayloadAddress(r) THEN None
            ELSE LET prev_block_address ==
                         block_start_address - S.hdr[header_address].size
                             - 2 * BLOCK_HEADER_SIZE
                 IN  IF S.hdr[prev_block_address].is_used THEN None
                     ELSE prev_block_address
        next_block ==
            LET header_address == block_end_address + BLOCK_HEADER_SIZE IN
            IF header_address >= RegionGetCurrentAddress(r) THEN None
            ELSE IF S.hdr[block_end_address].is_used THEN None
            ELSE block_end_address
    IN  IF prev_block = None /\ next_block = None
        THEN set_is_used(add_to_free_list(S, i, block), block, FALSE)
        ELSE IF prev_block # None /\ next_block # None
        THEN LET total_size == S.hdr[prev_block].size + S.hdr[block].size
                                   + S.hdr[next_block].size + 4 * BLOCK_HEADER_SIZE
                 S1 == remove_from_free_list(S, i, prev_block)
                 S2 == IF S1.status = "running"
                       THEN remove_from_free_list(S1, i, next_block) ELSE S1
             IN  IF S2.status # "running" THEN S2
                 ELSE add_to_free_list(
                          install_headers(S2, prev_block,
                                          [size |-> total_size, is_used |-> FALSE]),
                          i, prev_block)
        ELSE IF prev_block # None
        THEN LET total_size == S.hdr[prev_block].size + S.hdr[block].size
                                   + 2 * BLOCK_HEADER_SIZE
                 S1 == remove_from_free_list(S, i, prev_block)
             IN  IF S1.status # "running" THEN S1
                 ELSE add_to_free_list(
                          install_headers(S1, prev_block,
                                          [size |-> total_size, is_used |-> FALSE]),
                          i, prev_block)
        ELSE LET total_size == S.hdr[block].size + S.hdr[next_block].size
                                   + 2 * BLOCK_HEADER_SIZE
                 S1 == remove_from_free_list(S, i, next_block)
             IN  IF S1.status # "running" THEN S1
                 ELSE add_to_free_list(
                          install_headers(S1, block,
                                          [size |-> total_size, is_used |-> FALSE]),
                          i, block)

\* HeapRegionIterator driving the block loop of free: current_address and
\* end_address are the iterator's own fields, fixed when iter_blocks ran
RECURSIVE FreeBlocks(_, _, _, _, _)
FreeBlocks(S, i, address, current_address, end_address) ==
    IF S.status # "running" \/ current_address = end_address THEN S
    ELSE IF current_address > end_address THEN [S EXCEPT !.status = "panicked"]
    ELSE LET block == current_address
             block_size == S.hdr[block].size
             payload_start_address == BlockGetPayloadAddress(block)
             payload_end_address == payload_start_address + block_size
             S1 == IF payload_start_address <= address /\ address < payload_end_address
                   THEN FreeBlock(S, i, block)
                   ELSE S
         IN  FreeBlocks(S1, i, address,
                        current_address + block_size + 2 * BLOCK_HEADER_SIZE, end_address)

RECURSIVE FreeRegions(_, _, _)
FreeRegions(S, i, address) ==
    IF S.status # "running" \/ i > Len(S.regions) THEN S
    ELSE LET r == S.regions[i] IN
         IF ~(RegionGetPayloadAddress(r) <= address /\ address < RegionGetEndAddress(r))
         THEN FreeRegions(S, i + 1, address)
         ELSE FreeRegions(FreeBlocks(S, i, address, RegionGetPayloadAddress(r),
                                     RegionGetCurrentAddress(r)),
                          i + 1, address)

\* an address below the first region's payload is taken for its first block
free_clamped(S, address) ==
    FreeRegions(S, 1, IF Len(S.regions) > 0
                         /\ address < RegionGetPayloadAddress(S.regions[1])
                      THEN RegionGetPayloadAddress(S.regions[1]) + BLOCK_HEADER_SIZE
                      ELSE address)

free(S, address) == FreeRegions(S, 1, address)

-----------------------------------------------------------------------------
(* The heap's calls as actions *)

\* ghost: live holds [addr, size, n]; n tells apart allocations that were
\* given the same address for the same size
Copies(a, sz) == {l \in live : l.addr = a /\ l.size = sz}

NoCall ==
    [op |-> "none", size |-> 0, align |-> 1, addr |-> None, block |-> None,
     returned |-> TRUE, fresh |-> FALSE, expect |-> None, chain |-> 0]

Commit(S, call, live_) ==
    /\ regions' = S.regions
    /\ hdr' = S.hdr
    /\ nxt' = S.nxt
    /\ prv' = S.prv
    /\ cursor' = S.cursor
    /\ status' = S.status
    /\ live' = live_
    /\ last' = [call EXCEPT !.returned = (S.status = "running")]
    /\ UNCHANGED heapLimit
    /\ UNCHANGED pmmVars
    /\ UNCHANGED pagingVars
    /\ UNCHANGED vmmVars
    /\ UNCHANGED miscVars

\* ghost: the address an alloc(size) gave just before it was freed by the
\* call before this one
Expect(op, size) ==
    IF last.op = "free" /\ last.fresh /\ last.size = size /\ op = "alloc"
    THEN last.addr ELSE None

\* ghost: the block before block b in its region is marked free
PrevBlockFree(S, b) ==
    \E i \in 1..Len(S.regions) :
       /\ RegionGetPayloadAddress(S.regions[i]) <= b - BLOCK_HEADER_SIZE
       /\ b < RegionGetEndAddress(S.regions[i])
       /\ ~S.hdr[b - S.hdr[b - BLOCK_HEADER_SIZE].size - 2 * BLOCK_HEADER_SIZE].is_used

\* ghost: how many alloc(size) calls in a row, with nothing but the free of
\* what they returned in between, this alloc(size) ends; the row starts at an
\* alloc that found no free block to reuse and bumped a block whose
\* predecessor is in use
Chain(S, size) ==
    IF last.op = "free" /\ last.chain > 0 /\ last.size = size
    THEN IF last.chain < MaxChain THEN last.chain + 1 ELSE MaxChain
    ELSE IF /\ S.status = "running"
            /\ S.block # None
            /\ AllocSearch(HeapState, size, 1, FirstHead(HeapState), Fuel(HeapState)).kind
                   = "none"
            /\ ~PrevBlockFree(S, S.block)
    THEN 1 ELSE 0

Alloc(size) ==
    /\ status = "running"
    /\ \E ub \in UBOutcomes :
         LET S == alloc(HeapState, size, ub) IN
         /\ Cardinality(DOMAIN S.hdr) <= 2 * MaxBlocks
         /\ Commit(S, [NoCall EXCEPT !.op = "alloc", !.size = size, !.addr = S.ret,
                                     !.block = S.block,
                                     !.expect = Expect("alloc", size),
                                     !.chain = Chain(S, size)],
                   IF S.status = "running"
                   THEN live \cup {[addr |-> S.ret, size |-> size,
                                    n |-> Cardinality(Copies(S.ret, size)) + 1]}
                   ELSE live)

AllocAligned(size, alignment) ==
    /\ status = "running"
    /\ \E ub \in UBOutcomes :
         LET S == alloc_aligned(HeapState, size, alignment, ub) IN
         /\ Cardinality(DOMAIN S.hdr) <= 2 * MaxBlocks
         /\ Commit(S, [NoCall EXCEPT !.op = "alloc_aligned", !.size = size,
                                     !.align = alignment, !.addr = S.ret,
                                     !.block = S.block],
                   IF S.status = "running"
                   THEN live \cup {[addr |-> S.ret, size |-> size,
                                    n |-> Cardinality(Copies(S.ret, size)) + 1]}
                   ELSE live)

\* free of the address of a live allocation
Free(l) ==
    /\ status = "running"
    /\ l \in live
    /\ l.n = Cardinality(Copies(l.addr, l.size))
    /\ LET S == free(HeapState, l.addr) IN
       Commit(S, [NoCall EXCEPT !.op = "free", !.size = l.size, !.addr = l.addr,
                                !.fresh = (last.op = "alloc" /\ last.returned
                                           /\ last.addr = l.addr /\ last.size = l.size),
                                !.chain = IF last.op = "alloc" /\ last.returned
                                               /\ last.addr = l.addr /\ last.size = l.size
                                          THEN last.chain ELSE 0],
              live \ {l})

NoPmCall ==
    [op |-> "none", addr |-> None, some |-> FALSE, returned |-> TRUE,
     was_outstanding |-> FALSE, was_set |-> FALSE,
     fresh |-> FALSE, expect |-> None, used_before |-> <<>>]

\* the frame of the PML4 that cr3 names at boot (get_initial_pagemap): a
\* frame of no Usable entry
ROOT == 22 * PAGE_SIZE

NoPgCall ==
    [op |-> "none", v |-> 0, p |-> 0, flags |-> {}, returned |-> TRUE,
     events |-> <<>>, n |-> 0, frame |-> None, was_mapped |-> FALSE,
     round |-> 0, tree |-> <<>>]

InSeq(x, seq) == \E k \in 1..Len(seq) : seq[k] = x

\* no guard alive and no call in progress
NoPath == [pc |-> "idle", held |-> <<>>, requested |-> "none", held_before |-> <<>>,
           pages |-> 0, i |-> 0, level |-> 0, allocated |-> 0]

\* OnceCellMutex::new
OnceCellMutex_new == [set |-> FALSE, value |-> 0, locked |-> FALSE]

NoCellCall == [op |-> "none", param |-> 0, before |-> OnceCellMutex_new, n |-> 0]

MiscIdle ==
    /\ path = NoPath
    /\ cell = OnceCellMutex_new
    /\ cellLast = NoCellCall

\* the page tables are left alone by the calls of the heap and of the frame
\* allocator
PagingIdle ==
    /\ tables = [f \in {ROOT} |-> <<>>]
    /\ pgLast = NoPgCall

NoVmCall ==
    [op |-> "none", size |-> 0, cursor |-> 0, returned |-> TRUE, ret |-> None,
     frames |-> <<>>, n |-> 0]

\* VIRTUAL_MEMORY_MANAGER after VirtualMemoryManager::new
VmmIdle ==
    /\ vmRegions = [head |-> None, tail |-> None, length |-> 0]
    /\ vmNodes = <<>>
    /\ vmLast = NoVmCall

\* the frame allocator is left alone by the heap's calls
PmmIdle ==
    /\ memmap = <<>>
    /\ bitmaps = <<>>
    /\ bits = <<>>
    /\ outstanding = {}
    /\ pmLast = NoPmCall
    /\ badFrees = 0
    /\ overflow_checks = TRUE

\* KERNEL_HEAP_ALLOCATOR after memory::initialize
InitHeap ==
    /\ heapLimit = MaxHeapPages
    /\ regions = <<>>
    /\ hdr = <<>>
    /\ nxt = <<>>
    /\ prv = <<>>
    /\ cursor = KERNEL_HEAP_START
    /\ status = "running"
    /\ live = {}
    /\ last = NoCall
    /\ PmmIdle
    /\ PagingIdle
    /\ VmmIdle
    /\ MiscIdle

NextHeap ==
    \/ \E size \in Sizes : Alloc(size)
    \/ \E size \in AlignedSizes, alignment \in Aligns : AllocAligned(size, alignment)
    \/ \E l \in live : Free(l)

SpecHeap == InitHeap /\ [][NextHeap]_vars

\* free of any address: one that no region holds, or the one the free
\* before it was given
FreeAddrs == {KERNEL_HEAP_START, cursor} \cup (IF last.op = "free" THEN {last.addr} ELSE {})

FreeAt(address) ==
    /\ status = "running"
    /\ \A l \in live : l.addr # address
    /\ LET S == free(HeapState, address) IN
       /\ \A i \in 1..Len(S.regions) : S.regions[i].length_ <= MaxBlocks + 1
       /\ Commit(S, [NoCall EXCEPT !.op = "free", !.addr = address], live)

\* KERNEL_HEAP_ALLOCATOR after memory::initialize, on a machine with the
\* memory for a region of 2^16 bytes
InitHeapEdge ==
    /\ heapLimit = MaxEdgePages
    /\ regions = <<>>
    /\ hdr = <<>>
    /\ nxt = <<>>
    /\ prv = <<>>
    /\ cursor = KERNEL_HEAP_START
    /\ status = "running"
    /\ live = {}
    /\ last = NoCall
    /\ PmmIdle
    /\ PagingIdle
    /\ VmmIdle
    /\ MiscIdle

NextHeapEdge ==
    \/ \E size \in EdgeSizes : Alloc(size)
    \/ \E l \in live : Free(l)
    \/ \E address \in FreeAddrs : FreeAt(address)

SpecHeapEdge == InitHeapEdge /\ [][NextHeapEdge]_vars

\* the heap's calls with a size that fills a one-page region to its last byte
NextHeapFit ==
    \/ \E size \in FitSizes : Alloc(size)
    \/ \E l \in live : Free(l)

SpecHeapFit == InitHeap /\ [][NextHeapFit]_vars

\* KERNEL_HEAP_ALLOCATOR after memory::initialize, in a build with
\* debug assertions and in one without
InitHeapOdd ==
    /\ heapLimit = MaxHeapPages
    /\ regions = <<>>
    /\ hdr = <<>>
    /\ nxt = <<>>
    /\ prv = <<>>
    /\ cursor = KERNEL_HEAP_START
    /\ status = "running"
    /\ live = {}
    /\ last = NoCall
    /\ memmap = <<>>
    /\ bitmaps = <<>>
    /\ bits = <<>>
    /\ outstanding = {}
    /\ pmLast = NoPmCall
    /\ badFrees = 0
    /\ overflow_checks \in BOOLEAN
    /\ PagingIdle
    /\ VmmIdle
    /\ MiscIdle

\* the heap's calls with sizes that are not multiples of 8
NextHeapOdd ==
    \/ \E size \in OddSizes : Alloc(size)
    \/ \E size \in OddSizes, alignment \in Aligns : AllocAligned(size, alignment)
    \/ \E l \in live : Free(l)

SpecHeapOdd == InitHeapOdd /\ [][NextHeapOdd]_vars

-----------------------------------------------------------------------------
(* memory/pmm.rs: the page-frame allocator *)

Entry(base_page, pages, usable) ==
    [base |-> base_page * PAGE_SIZE, len |-> pages * PAGE_SIZE, usable |-> usable]

\* the memory maps the firmware may hand over: two Usable entries around a
\* reserved one, or a single Usable entry
MemMaps ==
    { <<Entry(1, 3, TRUE), Entry(4, 1, FALSE), Entry(5, 16, TRUE)>>,
      <<Entry(1, 4, TRUE)>> }

\* the addresses free_page is called with besides the outstanding frames:
\* the page below the map, a frame of the first entry, a page of the
\* reserved entry and the page above the map
OtherFreeAddrs == {k * PAGE_SIZE : k \in {0, 3, 4, 21}}

\* the PMM as a value: what the operations below take and return
PmmState ==
    [bitmaps |-> bitmaps, bits |-> bits, status |-> status, ret |-> None,
     some |-> FALSE]

\* set_used without the write of the bit
set_used_unmarked(P, e, index) ==
    [P EXCEPT !.bitmaps[e].used_pages = P.bitmaps[e].used_pages + 1]

\* Bitmap::set_used on entry e
set_used(P, e, index) ==
    LET b == P.bitmaps[e] IN
    IF b.used_pages = USIZE_MAX
    THEN IF overflow_checks
         THEN [P EXCEPT !.bits[e] = @ \cup {index}, !.status = "panicked"]
         ELSE [P EXCEPT !.bits[e] = @ \cup {index}, !.bitmaps[e].used_pages = 0]
    ELSE [P EXCEPT !.bits[e] = @ \cup {index},
                   !.bitmaps[e].used_pages = b.used_pages + 1]

\* Bitmap::set_free on entry e
set_free(P, e, index) ==
    LET b == P.bitmaps[e] IN
    IF b.used_pages = 0
    THEN IF overflow_checks
         THEN [P EXCEPT !.bits[e] = @ \ {index}, !.status = "panicked"]
         ELSE [P EXCEPT !.bits[e] = @ \ {index}, !.bitmaps[e].used_pages = USIZE_MAX]
    ELSE [P EXCEPT !.bits[e] = @ \ {index},
                   !.bitmaps[e].used_pages = b.used_pages - 1]

is_used(P, e, index) == index \in P.bits[e]

is_full(P, e) == P.bitmaps[e].total_pages = P.bitmaps[e].used_pages

\* Bitmap::get_free_index on entry e: some = FALSE is None.  The loop's state
\* is last_index_used alone, which stays within 0..used_pages + 1: a search
\* that has not ended after used_pages + 3 rounds never ends.
RECURSIVE get_free_index_loop(_, _, _)
get_free_index_loop(P, e, fuel) ==
    LET b == P.bitmaps[e] IN
    IF ~(b.used_pages < b.total_pages) THEN [P EXCEPT !.some = FALSE]
    ELSE IF fuel = 0 THEN [P EXCEPT !.status = "hung"]
    ELSE LET P1 == IF b.last_index_used > b.used_pages
                   THEN [P EXCEPT !.bitmaps[e].last_index_used = 0] ELSE P
             index == P1.bitmaps[e].last_index_used
         IN  IF ~is_used(P1, e, index)
             THEN LET P2 == set_used(P1, e, index) IN
                  [P2 EXCEPT !.bitmaps[e].last_index_used = index + 1,
                             !.some = TRUE, !.ret = index]
             ELSE get_free_index_loop(
                      [P1 EXCEPT !.bitmaps[e].last_index_used = index + 1], e, fuel - 1)

get_free_index(P, e) == get_free_index_loop(P, e, P.bitmaps[e].used_pages + 3)

\* BitmapInstallable::install on entry e of map m
install(P, m, e) ==
    LET total_pages == m[e].len \div PAGE_SIZE
        reserved_bits_for_bitmap ==
            div_ceil(total_pages + div_ceil(BITMAP_SIZE, PAGE_SIZE), 8)
    IN  [P EXCEPT !.bitmaps[e] = [last_index_used |-> reserved_bits_for_bitmap,
                                  total_pages |-> total_pages,
                                  used_pages |-> reserved_bits_for_bitmap],
                  !.bits[e] = @ \cup 0..(reserved_bits_for_bitmap - 1)]

\* BitmapAllocator::new: install on every Usable entry; memory is what the
\* bit arrays hold beforehand
NoBitmap == [last_index_used |-> 0, total_pages |-> 0, used_pages |-> 0]

RECURSIVE new_loop(_, _, _)
new_loop(P, m, e) ==
    IF e > Len(m) THEN P
    ELSE new_loop(IF m[e].usable THEN install(P, m, e) ELSE P, m, e + 1)

BitmapAllocator_new(m, memory) ==
    new_loop([bitmaps |-> [e \in 1..Len(m) |-> NoBitmap],
              bits |-> [e \in 1..Len(m) |-> IF m[e].usable THEN memory ELSE {}],
              status |-> "running", ret |-> None, some |-> FALSE], m, 1)

\* BitmapAllocator::allocate_page: some = FALSE is None
RECURSIVE allocate_page_loop(_, _)
allocate_page_loop(P, e) ==
    IF e > Len(memmap) THEN [P EXCEPT !.some = FALSE]
    ELSE IF ~memmap[e].usable THEN allocate_page_loop(P, e + 1)
    ELSE IF is_full(P, e) THEN allocate_page_loop(P, e + 1)
    ELSE LET G == get_free_index(P, e) IN
         IF G.status # "running" THEN G
         ELSE IF ~G.some THEN [G EXCEPT !.status = "panicked"]
         ELSE [G EXCEPT !.ret = memmap[e].base + G.ret * PAGE_SIZE]

allocate_page(P) == allocate_page_loop(P, 1)

\* get_index_from_address: 0 or more is Some(index), -1 is None
RECURSIVE get_index_loop(_, _, _)
get_index_loop(entry, addr, index) ==
    IF ~(index * PAGE_SIZE < entry.base + entry.len) THEN -1
    ELSE IF addr = index * PAGE_SIZE THEN index
    ELSE get_index_loop(entry, addr, index + 1)

get_index_from_address(entry, addr) == get_index_loop(entry, addr, 0)

\* the test free_page makes of an entry before it looks for the index
OwnsAddress(entry, addr) == entry.base > addr /\ addr <= entry.base + entry.len

\* BitmapAllocator::free_page
RECURSIVE free_page_loop(_, _, _)
free_page_loop(P, addr, e) ==
    IF e > Len(memmap) THEN [P EXCEPT !.status = "panicked"]
    ELSE IF ~memmap[e].usable THEN free_page_loop(P, addr, e + 1)
    ELSE IF OwnsAddress(memmap[e], addr)
              /\ get_index_from_address(memmap[e], addr) >= 0
    THEN set_free(P, e, get_index_from_address(memmap[e], addr))
    ELSE free_page_loop(P, addr, e + 1)

free_page(P, addr) == free_page_loop(P, addr, 1)

(* The frame allocator's calls as actions *)

\* ghost: the Usable entry holding a frame, 0 when none does
RECURSIVE OwnerFrom(_, _)
OwnerFrom(addr, e) ==
    IF e > Len(memmap) THEN 0
    ELSE IF memmap[e].usable /\ memmap[e].base <= addr
              /\ addr < memmap[e].base + memmap[e].len
    THEN e ELSE OwnerFrom(addr, e + 1)

Owner(addr) == OwnerFrom(addr, 1)

\* ghost: the pages install reserved in entry e
Reserved(e) ==
    div_ceil(memmap[e].len \div PAGE_SIZE + div_ceil(BITMAP_SIZE, PAGE_SIZE), 8)

PmCommit(P, call, outstanding_, bad_) ==
    /\ bitmaps' = P.bitmaps
    /\ bits' = P.bits
    /\ status' = P.status
    /\ outstanding' = outstanding_
    /\ badFrees' = bad_
    /\ pmLast' = [call EXCEPT !.returned = (P.status = "running")]
    /\ UNCHANGED <<memmap, overflow_checks>>
    /\ UNCHANGED heapVars
    /\ UNCHANGED pagingVars
    /\ UNCHANGED vmmVars
    /\ UNCHANGED miscVars

\* ghost: the used_pages counters, entry by entry
UsedPages == [e \in 1..Len(memmap) |-> bitmaps[e].used_pages]

AllocatePage ==
    /\ status = "running"
    /\ LET P == allocate_page(PmmState) IN
       PmCommit(P, [NoPmCall EXCEPT !.op = "allocate_page", !.addr = P.ret,
                                    !.some = P.some,
                                    !.was_outstanding = (P.some /\ P.ret \in outstanding),
                                    !.expect = IF pmLast.op = "free_page" /\ pmLast.fresh
                                               THEN pmLast.addr ELSE None,
                                    !.used_before = UsedPages],
                IF P.status = "running" /\ P.some
                THEN outstanding \cup {P.ret} ELSE outstanding,
                badFrees)

\* ghost: addr is the frame the call just before returned
PmFresh(addr) ==
    /\ pmLast.op = "allocate_page" /\ pmLast.returned /\ pmLast.some
    /\ pmLast.addr = addr /\ addr \in outstanding

FreePage(addr) ==
    /\ status = "running"
    /\ addr \in outstanding \/ badFrees < MaxBadFrees
    /\ LET P == free_page(PmmState, addr)
           e == Owner(addr)
       IN  PmCommit(P, [NoPmCall EXCEPT !.op = "free_page", !.addr = addr,
                                        !.was_outstanding = (addr \in outstanding),
                                        !.fresh = PmFresh(addr),
                                        !.used_before = IF PmFresh(addr)
                                                        THEN pmLast.used_before ELSE <<>>,
                                        !.was_set = (e # 0 /\ (addr - memmap[IF e = 0 THEN 1 ELSE e].base)
                                                                  \div PAGE_SIZE \in bits[IF e = 0 THEN 1 ELSE e])],
                    outstanding \ {addr},
                    IF addr \in outstanding THEN badFrees ELSE badFrees + 1)

HeapIdle ==
    /\ heapLimit = MaxHeapPages
    /\ regions = <<>>
    /\ hdr = <<>>
    /\ nxt = <<>>
    /\ prv = <<>>
    /\ cursor = KERNEL_HEAP_START
    /\ live = {}
    /\ last = NoCall

\* PHYSICAL_MEMORY_MANAGER after BitmapAllocator::new
InitPmm ==
    /\ memmap \in MemMaps
    /\ overflow_checks \in BOOLEAN
    /\ \E memory \in InitialBits :
          /\ bitmaps = BitmapAllocator_new(memmap, memory).bitmaps
          /\ bits = BitmapAllocator_new(memmap, memory).bits
    /\ status = "running"
    /\ outstanding = {}
    /\ pmLast = NoPmCall
    /\ badFrees = 0
    /\ HeapIdle
    /\ PagingIdle
    /\ VmmIdle
    /\ MiscIdle

NextPmm ==
    \/ AllocatePage
    \/ \E addr \in outstanding \cup OtherFreeAddrs : FreePage(addr)

SpecPmm == InitPmm /\ [][NextPmm]_vars

\* memory maps whose first Usable entry is shorter than a page, or one page
\* long
SmallMemMaps ==
    { <<[base |-> PAGE_SIZE, len |-> PAGE_SIZE \div 2, usable |-> TRUE],
        Entry(5, 16, TRUE)>>,
      <<Entry(1, 1, TRUE), Entry(5, 16, TRUE)>> }

\* PHYSICAL_MEMORY_MANAGER after BitmapAllocator::new on such a map
InitPmmSmall ==
    /\ memmap \in SmallMemMaps
    /\ overflow_checks \in BOOLEAN
    /\ \E memory \in InitialBits :
          /\ bitmaps = BitmapAllocator_new(memmap, memory).bitmaps
          /\ bits = BitmapAllocator_new(memmap, memory).bits
    /\ status = "running"
    /\ outstanding = {}
    /\ pmLast = NoPmCall
    /\ badFrees = 0
    /\ HeapIdle
    /\ PagingIdle
    /\ VmmIdle
    /\ MiscIdle

SpecPmmSmall == InitPmmSmall /\ [][NextPmm]_vars

-----------------------------------------------------------------------------
(* arch/x86_64/paging.rs: the four-level page tables *)

\* the direct map: physical memory is visible at physical + HHDM_OFFSET (the
\* offset the boot loader reports)
HHDM_OFFSET == 16777216

\* a frame of no memory-map entry (device memory)
DeviceFrame == 23 * PAGE_SIZE

PTE_PRESENT == 1

PTE_WRITEABLE == 2

PTE_USER_ACCESSIBLE == 4

\* A 64-bit entry is kept as its bits 0..51 (low, a number) and its bit 63
\* (not_executable, PTE_NOT_EXECUTABLE); no address of the model reaches
\* bit 31.
ZeroEntry == [low |-> 0, not_executable |-> FALSE]

\* x & b # 0 and x | b for a one-bit mask b
HasBit(x, b) == (x \div b) % 2 = 1

SetBit(x, b) == IF HasBit(x, b) THEN x ELSE x + b

\* entry & PTE_ADDRESS_MASK
MaskAddress(entry) == entry.low - (entry.low % PAGE_SIZE)

\* VirtualAddress::get_indexes
get_indexes(addr) ==
    << ((addr \div (2 ^ 30)) \div 512) % 512,
       (addr \div (2 ^ 30)) % 512,
       (addr \div (2 ^ 21)) % 512,
       (addr \div (2 ^ 12)) % 512 >>

\* set_flags with the Executable test dropped
set_flags_executable(addr, flags) ==
    LET a0 == SetBit(addr, PTE_PRESENT)
        a1 == IF "Writeable" \in flags THEN SetBit(a0, PTE_WRITEABLE) ELSE a0
        a2 == IF "UserAccessible" \in flags THEN SetBit(a1, PTE_USER_ACCESSIBLE) ELSE a1
    IN  [low |-> a2, not_executable |-> FALSE]

set_flags(addr, flags) ==
    LET a0 == SetBit(addr, PTE_PRESENT)
        a1 == IF "Writeable" \in flags THEN SetBit(a0, PTE_WRITEABLE) ELSE a0
        a2 == IF "UserAccessible" \in flags THEN SetBit(a1, PTE_USER_ACCESSIBLE) ELSE a1
    IN  [low |-> a2, not_executable |-> ~("Executable" \in flags)]

\* root.add(index).read() and .write(entry) on the table in a frame; memory
\* no table was ever stored in reads as zero
ReadEntry(T, frame, index) ==
    IF frame \in DOMAIN T /\ index \in DOMAIN T[frame]
    THEN T[frame][index] ELSE ZeroEntry

WriteEntry(T, frame, index, entry) ==
    LET old == IF frame \in DOMAIN T THEN T[frame] ELSE <<>>
        dom == IF entry = ZeroEntry THEN DOMAIN old \ {index}
                                    ELSE DOMAIN old \cup {index}
        new == [i \in dom |-> IF i = index THEN entry ELSE old[i]]
    IN  [f \in DOMAIN T \cup {frame} |-> IF f = frame THEN new ELSE T[f]]

\* write_bytes(page + HHDM_OFFSET, 0, PAGE_SIZE)
write_bytes(T, frame) ==
    [f \in DOMAIN T \cup {frame} |-> IF f = frame THEN <<>> ELSE T[f]]

\* the page tables and the frame allocator as a value: what the operations
\* below take and return; events is what the call did so far, in order
PagingState ==
    [bitmaps |-> bitmaps, bits |-> bits, status |-> status, ret |-> None,
     some |-> FALSE, tables |-> tables, events |-> <<>>]

Event(kind, at, index, entry) ==
    [kind |-> kind, at |-> at, index |-> index, entry |-> entry]

\* get_next_level from the allocate_page call on: A is what allocate_page
\* left, table and index name the entry that was not Present
link_new_level(A, table, index, flags) ==
    IF A.status # "running" THEN A
    ELSE IF ~A.some THEN [A EXCEPT !.status = "panicked"]
    ELSE IF A.ret % PAGE_SIZE # 0 \/ A.ret = 0
         THEN [A EXCEPT !.status = "panicked"]
    ELSE [A EXCEPT
            !.tables = WriteEntry(write_bytes(A.tables, A.ret),
                                  table, index, set_flags(A.ret, flags)),
            !.events = A.events \o
               << Event("allocate_page", A.ret, 0, ZeroEntry),
                  Event("write_bytes", A.ret, 0, ZeroEntry),
                  Event("write", table, index, set_flags(A.ret, flags)) >>,
            !.ret = MaskAddress(set_flags(A.ret, flags)) + HHDM_OFFSET]

\* should_allocate is not looked at
get_next_level_allocating(G, root, index, flags, should_allocate) ==
    IF HasBit(ReadEntry(G.tables, root - HHDM_OFFSET, index).low, PTE_PRESENT)
    THEN [G EXCEPT !.ret = MaskAddress(ReadEntry(G.tables, root - HHDM_OFFSET, index))
                              + HHDM_OFFSET]
    ELSE link_new_level(allocate_page(G), root - HHDM_OFFSET, index, flags)

\* get_next_level: ret is the address of the next table in the direct map
get_next_level(G, root, index, flags, should_allocate) ==
    IF HasBit(ReadEntry(G.tables, root - HHDM_OFFSET, index).low, PTE_PRESENT)
    THEN [G EXCEPT !.ret = MaskAddress(ReadEntry(G.tables, root - HHDM_OFFSET, index))
                              + HHDM_OFFSET]
    ELSE IF ~should_allocate THEN [G EXCEPT !.status = "panicked"]
    ELSE link_new_level(allocate_page(G), root - HHDM_OFFSET, index, flags)

\* the three get_next_level calls of map and unmap, each on the table the
\* call before returned
Descend(G, root, ix, level, flags, should_allocate) ==
    IF G.status # "running" THEN G
    ELSE get_next_level(G, root, ix[level], flags, should_allocate)

\* map from the write of the PML1 entry on
write_pml1(G, index, entry) ==
    IF G.status # "running" THEN G
    ELSE [G EXCEPT
            !.tables = WriteEntry(G.tables, G.ret - HHDM_OFFSET, index, entry),
            !.events = Append(G.events,
                              Event("write_pml1", G.ret - HHDM_OFFSET, index, entry))]

\* G.ret after a step that failed is not read
Ret(G) == IF G.status = "running" THEN G.ret ELSE HHDM_OFFSET

Pml3(G, pml4, ix, flags, should_allocate) ==
    Descend(G, pml4, ix, 1, flags, should_allocate)

Pml2From(G3, ix, flags, should_allocate) ==
    Descend(G3, Ret(G3), ix, 2, flags, should_allocate)

Pml1From(G2, ix, flags, should_allocate) ==
    Descend(G2, Ret(G2), ix, 3, flags, should_allocate)

map(G, pml4, virtual_addr, physical_addr, flags) ==
    IF virtual_addr % PAGE_SIZE # 0 \/ physical_addr % PAGE_SIZE # 0
    THEN [G EXCEPT !.status = "panicked"]
    ELSE write_pml1(
            Pml1From(Pml2From(Pml3(G, pml4, get_indexes(virtual_addr), flags, TRUE),
                              get_indexes(virtual_addr), flags, TRUE),
                     get_indexes(virtual_addr), flags, TRUE),
            get_indexes(virtual_addr)[4], set_flags(physical_addr, flags))

\* unmap from the write of 0 on: F is what free_page(addr) left, pml1 the
\* PML1 table
clear_pml1(F, addr, pml1, index, virtual_addr) ==
    IF F.status # "running" THEN F
    ELSE [F EXCEPT
            !.tables = WriteEntry(F.tables, pml1, index, ZeroEntry),
            !.events = F.events \o
               << Event("free_page", addr, 0, ZeroEntry),
                  Event("write_pml1", pml1, index, ZeroEntry),
                  Event("invlpg", virtual_addr, 0, ZeroEntry) >>]

\* unmap from the read of the PML1 entry on
free_mapped(G, index, virtual_addr) ==
    IF G.status # "running" THEN G
    ELSE clear_pml1(
            free_page(G, MaskAddress(ReadEntry(G.tables, G.ret - HHDM_OFFSET, index))),
            MaskAddress(ReadEntry(G.tables, G.ret - HHDM_OFFSET, index)),
            G.ret - HHDM_OFFSET, index, virtual_addr)

unmap(G, pml4, virtual_addr, physical_addr) ==
    IF virtual_addr % PAGE_SIZE # 0 \/ physical_addr % PAGE_SIZE # 0
    THEN [G EXCEPT !.status = "panicked"]
    ELSE free_mapped(
            Pml1From(Pml2From(Pml3(G, pml4, get_indexes(virtual_addr), {}, FALSE),
                              get_indexes(virtual_addr), {}, FALSE),
                     get_indexes(virtual_addr), {}, FALSE),
            get_indexes(virtual_addr)[4], virtual_addr)

(* The paging calls as actions *)

\* ghost: the walk the MMU makes for a virtual address: the entries it reads
\* at PML4, PML3, PML2 and PML1, each table taken from the entry before
PageWalk(T, virtual_addr) ==
    LET ix == get_indexes(virtual_addr)
        e4 == ReadEntry(T, ROOT, ix[1])
        e3 == ReadEntry(T, MaskAddress(e4), ix[2])
        e2 == ReadEntry(T, MaskAddress(e3), ix[3])
        e1 == ReadEntry(T, MaskAddress(e2), ix[4])
    IN  <<e4, e3, e2, e1>>

\* ghost: the walk finds a Present entry at every level
Mapped(T, virtual_addr) ==
    \A k \in 1..4 : HasBit(PageWalk(T, virtual_addr)[k].low, PTE_PRESENT)

\* ghost: the frames get_next_level took from the frame allocator in a call
Allocated(events) ==
    {events[k].at : k \in {j \in DOMAIN events : events[j].kind = "allocate_page"}}

\* ghost: the frames free_page was called with in a call
Freed(events) ==
    {events[k].at : k \in {j \in DOMAIN events : events[j].kind = "free_page"}}

\* the virtual pages of the model: two of one PML1 table, one of the next
VAddrs ==
    {KERNEL_HEAP_START, KERNEL_HEAP_START + PAGE_SIZE, KERNEL_HEAP_START + 2 ^ 21}

FlagSets == {{"Writeable", "Executable"}, {"UserAccessible"}}

\* the frames callers map: frames they hold from allocate_page, or device
\* memory
DataFrames == (outstanding \ DOMAIN tables) \cup {DeviceFrame}

PgCommit(G, call, outstanding_) ==
    /\ tables' = G.tables
    /\ bitmaps' = G.bitmaps
    /\ bits' = G.bits
    /\ status' = G.status
    /\ outstanding' = outstanding_
    /\ pgLast' = [call EXCEPT !.returned = (G.status = "running"),
                              !.events = G.events,
                              !.n = pgLast.n + 1]
    /\ UNCHANGED <<memmap, overflow_checks, pmLast, badFrees>>
    /\ UNCHANGED heapVars
    /\ UNCHANGED vmmVars
    /\ UNCHANGED miscVars

\* ghost: this map directly follows the unmap of the same page, frame and
\* flags that directly followed a map of them
Again(virtual_addr, physical_addr, flags) ==
    /\ pgLast.op = "unmap" /\ pgLast.round = 2 /\ pgLast.returned
    /\ pgLast.v = virtual_addr /\ pgLast.p = physical_addr
    /\ pgLast.flags = flags

MapCommit(G, virtual_addr, physical_addr, flags) ==
    PgCommit(G, [NoPgCall EXCEPT
                    !.op = "map", !.v = virtual_addr,
                    !.p = physical_addr, !.flags = flags,
                    !.was_mapped = (physical_addr \in outstanding),
                    !.round = IF Again(virtual_addr, physical_addr, flags) THEN 3 ELSE 1,
                    !.tree = IF Again(virtual_addr, physical_addr, flags)
                             THEN pgLast.tree ELSE <<>>],
             outstanding \cup Allocated(G.events))

Map(virtual_addr, physical_addr, flags) ==
    /\ status = "running"
    /\ pgLast.n < MaxPagingCalls
    /\ MapCommit(map(PagingState, ROOT + HHDM_OFFSET, virtual_addr, physical_addr, flags),
                 virtual_addr, physical_addr, flags)

\* ghost: the frame the caller of unmap passes: the one the page is mapped
\* to (DeviceFrame when it is not mapped)
FrameAt(virtual_addr) ==
    IF Mapped(tables, virtual_addr)
    THEN MaskAddress(PageWalk(tables, virtual_addr)[4]) ELSE DeviceFrame

\* ghost: this unmap directly follows a map of the same page and frame
After(virtual_addr) ==
    /\ pgLast.op = "map" /\ pgLast.returned
    /\ pgLast.v = virtual_addr /\ pgLast.p = FrameAt(virtual_addr)

UnmapCommit(G, virtual_addr) ==
    PgCommit(G, [NoPgCall EXCEPT
                    !.op = "unmap", !.v = virtual_addr,
                    !.p = FrameAt(virtual_addr),
                    !.flags = IF After(virtual_addr) THEN pgLast.flags ELSE {},
                    !.frame = MaskAddress(PageWalk(tables, virtual_addr)[4]),
                    !.was_mapped = /\ Mapped(tables, virtual_addr)
                                   /\ FrameAt(virtual_addr) \in outstanding \ DOMAIN tables,
                    !.round = IF After(virtual_addr) THEN 2 ELSE 0,
                    !.tree = IF After(virtual_addr) THEN tables ELSE <<>>],
             outstanding \ Freed(G.events))

Unmap(virtual_addr) ==
    /\ status = "running"
    /\ pgLast.n < MaxPagingCalls
    /\ UnmapCommit(unmap(PagingState, ROOT + HHDM_OFFSET, virtual_addr,
                         FrameAt(virtual_addr)),
                   virtual_addr)

\* the frames callers take for their pages
TakeFrame ==
    /\ Cardinality(outstanding \ DOMAIN tables) < MaxDataFrames
    /\ AllocatePage

\* paging::map and unmap on the boot page map, after memory::initialize
InitPaging == InitPmm

NextPaging ==
    \/ TakeFrame
    \/ \E virtual_addr \in VAddrs, physical_addr \in DataFrames, flags \in FlagSets :
          Map(virtual_addr, physical_addr, flags)
    \/ \E virtual_addr \in VAddrs : Unmap(virtual_addr)

SpecPaging == InitPaging /\ [][NextPaging]_vars

-----------------------------------------------------------------------------
(* memory/vmm.rs: the virtual memory manager *)

\* the flags memory::initialize gives the kernel's VirtualMemoryManager
VmmFlags == {"Writeable", "Executable"}

\* the sizes allocate_region is called with: less than a page, a page with
\* the node exactly, one byte more, and two pages
RegionSizes == {16, PAGE_SIZE - NODE_SIZE, PAGE_SIZE - NODE_SIZE + 1, 2 * PAGE_SIZE}

\* the manager, the page tables and the frame allocator as a value: what
\* allocate_region takes and returns; frames is the frames it mapped, in order
VmmState ==
    [bitmaps |-> bitmaps, bits |-> bits, status |-> status, ret |-> None,
     some |-> FALSE, tables |-> tables, events |-> <<>>,
     current_address |-> cursor, regions |-> vmRegions, nodes |-> vmNodes,
     frames |-> <<>>]

\* VirtualMemoryRegion::new with the length one page too long
VirtualMemoryRegion_new_longer(base, length, flags) ==
    [base |-> base, flags |-> flags, length |-> length + PAGE_SIZE, is_used |-> TRUE]

VirtualMemoryRegion_new(base, length, flags) ==
    [base |-> base, flags |-> flags, length |-> length, is_used |-> TRUE]

\* SinglyLinkedList::append_to_address on VirtualMemoryManager.regions
append(V, address, data) ==
    LET node == [next |-> None, data |-> data]
        written == Store(V.nodes, address, node)
    IN  IF V.regions.tail = None
        THEN [V EXCEPT !.nodes = written,
                       !.regions = [head |-> address, tail |-> address,
                                    length |-> V.regions.length + 1]]
        ELSE [V EXCEPT !.nodes = [written EXCEPT ![V.regions.tail].next = address],
                       !.regions = [V.regions EXCEPT !.tail = address,
                                                     !.length = @ + 1]]

\* SinglyLinkedList::tail: the address of the tail node's data
tail_mut(V) ==
    IF V.regions.tail = None THEN None ELSE V.regions.tail + NEXT_PTR_SIZE

\* the page count of allocate_region without the list node
pages_without_node(size) == div_ceil(size, PAGE_SIZE)

\* the page count of allocate_region
pages_of(size) == div_ceil(size + NODE_SIZE, PAGE_SIZE)

\* allocate_region: one round of the loop from the map call on: A is what
\* allocate_page left
map_page(A, current_address) ==
    IF A.status # "running" THEN A
    ELSE IF ~A.some THEN [A EXCEPT !.status = "panicked"]
    ELSE map([A EXCEPT !.frames = Append(@, A.ret)],
             ROOT + HHDM_OFFSET, current_address, A.ret, VmmFlags)

\* allocate_region: the loop that takes and maps the pages
RECURSIVE map_pages(_, _, _)
map_pages(V, i, pages) ==
    IF i >= pages \/ V.status # "running" THEN V
    ELSE map_pages(map_page(allocate_page(V), V.current_address + i * PAGE_SIZE),
                   i + 1, pages)

\* allocate_region from the append on: M is what the loop left
append_region(M, pages) ==
    IF M.status # "running" THEN M
    ELSE append([M EXCEPT !.current_address = M.current_address + pages * PAGE_SIZE],
                M.current_address,
                VirtualMemoryRegion_new(M.current_address + NODE_SIZE,
                                        pages * PAGE_SIZE, VmmFlags))

\* allocate_region from self.regions.tail_mut() on
return_tail(L) ==
    IF L.status # "running" THEN L ELSE [L EXCEPT !.ret = tail_mut(L)]

VirtualMemoryManager_allocate_region(V, size) ==
    return_tail(append_region(map_pages(V, 0, pages_of(size)), pages_of(size)))

(* The manager's calls as actions *)

VmCommit(V, size) ==
    /\ cursor' = V.current_address
    /\ vmRegions' = V.regions
    /\ vmNodes' = V.nodes
    /\ tables' = V.tables
    /\ bitmaps' = V.bitmaps
    /\ bits' = V.bits
    /\ status' = V.status
    /\ outstanding' = outstanding \cup Allocated(V.events)
                         \cup {V.frames[k] : k \in DOMAIN V.frames}
    /\ vmLast' = [op |-> "allocate_region", size |-> size, cursor |-> cursor,
                  returned |-> (V.status = "running"), ret |-> V.ret,
                  frames |-> V.frames, n |-> vmLast.n + 1]
    /\ UNCHANGED <<regions, hdr, nxt, prv, live, last, heapLimit>>
    /\ UNCHANGED <<memmap, overflow_checks, pmLast, badFrees>>
    /\ UNCHANGED pgLast
    /\ UNCHANGED miscVars

AllocateRegion(size) ==
    /\ status = "running"
    /\ VmCommit(VirtualMemoryManager_allocate_region(VmmState, size), size)

\* SinglyLinkedList::remove from the loop on: the loop passes over the nodes
\* compare holds for and unlinks the first node it does not hold for
RECURSIVE remove_loop(_, _, _, _)
remove_loop(V, base, node, previous_node) ==
    IF node = None THEN V
    ELSE IF V.nodes[node].data.base = base
    THEN remove_loop(V, base, V.nodes[node].next, node)
    ELSE LET next_node == V.nodes[node].next
             unlinked ==
                 IF previous_node = None /\ next_node = None
                 THEN [V EXCEPT !.regions.head = None, !.regions.tail = None]
                 ELSE IF previous_node # None /\ next_node # None
                 THEN [V EXCEPT !.nodes[previous_node].next = next_node]
                 ELSE IF previous_node # None
                 THEN [V EXCEPT !.nodes[previous_node].next = None,
                                !.regions.tail = previous_node]
                 ELSE [V EXCEPT !.regions.head = next_node]
         IN  [unlinked EXCEPT !.regions.length = @ - 1,
                              !.nodes[node].data.is_used = FALSE]

\* SinglyLinkedList::remove with free_region's closures: compare is
\* region.base == other.base, and the node that is unlinked gets
\* is_used = false
regions_remove(V, base) ==
    IF V.regions.length = 0 THEN [V EXCEPT !.status = "panicked"]
    ELSE remove_loop(V, base, V.regions.head, None)

\* free_region from todo!() on
todo(V) == IF V.status # "running" THEN V ELSE [V EXCEPT !.status = "panicked"]

VirtualMemoryManager_free_region(V, base) == todo(regions_remove(V, base))

VmFreeCommit(V, node) ==
    /\ vmRegions' = V.regions
    /\ vmNodes' = V.nodes
    /\ status' = V.status
    /\ vmLast' = [op |-> "free_region", size |-> 0, cursor |-> cursor,
                  returned |-> (V.status = "running"), ret |-> node,
                  frames |-> <<>>, n |-> vmLast.n + 1]
    /\ UNCHANGED <<regions, hdr, nxt, prv, cursor, live, last, heapLimit>>
    /\ UNCHANGED pmmVars
    /\ UNCHANGED pagingVars
    /\ UNCHANGED miscVars

\* free_region(region) with the region stored in a node of the list
FreeRegion(node) ==
    /\ status = "running"
    /\ VmFreeCommit(VirtualMemoryManager_free_region(VmmState, vmNodes[node].data.base),
                    node)

\* VIRTUAL_MEMORY_MANAGER after memory::initialize
InitVmm == InitPmm

NextVmm == \E size \in RegionSizes : AllocateRegion(size)

SpecVmm == InitVmm /\ [][NextVmm]_vars

\* ghost: the nodes of VirtualMemoryManager.regions, from a node on
RECURSIVE RegionNodesFrom(_, _)
RegionNodesFrom(node, seen) ==
    IF node = None \/ node \in seen \/ node \notin DOMAIN vmNodes THEN seen
    ELSE RegionNodesFrom(vmNodes[node].next, seen \cup {node})

RegionNodes == RegionNodesFrom(vmRegions.head, {})

NextVmmFree ==
    \/ \E size \in RegionSizes : AllocateRegion(size)
    \/ \E node \in RegionNodes : FreeRegion(node)

SpecVmmFree == InitVmm /\ [][NextVmmFree]_vars

-----------------------------------------------------------------------------
(* What the properties below read off a heap state *)

\* the nodes a walk from node visits
RECURSIVE Walk(_, _, _)
Walk(nx, node, seen) ==
    IF node = None \/ node \in seen THEN seen
    ELSE Walk(nx, nx[node], seen \cup {node})

\* the nodes of the free_blocks list of region i
ListNodes(rs, nx, i) == Walk(nx, rs[i].head, {})

\* a walk from node reaches a node whose next is None
RECURSIVE WalkEnds(_, _, _)
WalkEnds(nx, node, fuel) ==
    IF node = None THEN TRUE
    ELSE IF fuel = 0 THEN FALSE
    ELSE WalkEnds(nx, nx[node], fuel - 1)

\* the blocks of region i, as iter_blocks visits them
RECURSIVE StreamFrom(_, _, _, _)
StreamFrom(hd, current_address, end_address, seen) ==
    IF current_address >= end_address \/ current_address \notin DOMAIN hd THEN seen
    ELSE StreamFrom(hd, current_address + hd[current_address].size + 2 * BLOCK_HEADER_SIZE,
                    end_address, seen \cup {current_address})

Stream(rs, hd, i) ==
    StreamFrom(hd, RegionGetPayloadAddress(rs[i]), RegionGetCurrentAddress(rs[i]), {})

BlockEnd(hd, b) == b + hd[b].size + 2 * BLOCK_HEADER_SIZE

Overlap(a, b) == a.addr < b.addr + b.size /\ b.addr < a.addr + a.size

-----------------------------------------------------------------------------
(* Heap properties *)

\* C1: the byte ranges [A, A+size) of the live allocations are pairwise
\* disjoint: no byte is handed out to two live allocations.
C1_LiveRangesDisjoint ==
    \A a \in live : \A b \in live : a # b => ~Overlap(a, b)

\* C3: after free(A) returns, every neighbour of A's block that was free and
\* on free_blocks is off the list, one free block on the list replaces A's
\* block and those neighbours with payload size the sum of theirs plus 2k
\* header sizes, and every other node of free_blocks is still on the list.
CoalescedBy(i, B) ==
    LET S0 == Stream(regions, hdr, i)
        nodes == ListNodes(regions, nxt, i)
        isFree(X) == ~hdr[X].is_used /\ BlockGetPayloadAddress(X) \in nodes
        P == {X \in S0 : BlockEnd(hdr, X) = B /\ isFree(X)}
        N == {X \in S0 : X = BlockEnd(hdr, B) /\ isFree(X)}
        merged == P \cup {B} \cup N
        M == CHOOSE X \in merged : \A Y \in merged : X <= Y
        total == LET RECURSIVE Sum(_)
                     Sum(T) == IF T = {} THEN 0
                               ELSE LET X == CHOOSE X \in T : TRUE
                                    IN  hdr[X].size + Sum(T \ {X})
                 IN  Sum(merged) + 2 * BLOCK_HEADER_SIZE * (Cardinality(merged) - 1)
        nodes_ == ListNodes(regions', nxt', i)
    IN  (P \cup N) # {} =>
           /\ hdr'[M] = [size |-> total, is_used |-> FALSE]
           /\ M \in Stream(regions', hdr', i)
           /\ BlockGetPayloadAddress(M) \in nodes_
           /\ \A X \in (P \cup N) \ {M} : BlockGetPayloadAddress(X) \notin nodes_
           /\ \A n \in nodes : (n - BLOCK_HEADER_SIZE) \notin merged => n \in nodes_

C3_FreeCoalesces ==
    [][(last'.op = "free" /\ last'.returned) =>
          \A i \in 1..Len(regions) :
             \A B \in Stream(regions, hdr, i) :
                (BlockGetPayloadAddress(B) <= last'.addr
                   /\ last'.addr < BlockGetPayloadAddress(B) + hdr[B].size)
                => CoalescedBy(i, B)]_vars

C5_HeapCallsTerminate ==
    /\ status # "hung"
    /\ \A i \in 1..Len(regions) :
          WalkEnds(nxt, regions[i].head, Cardinality(DOMAIN nxt) + 1)

\* C6: when alloc_aligned returns A = payload_start + p with p > 0, the range
\* [A, A+size) lies inside the payload of the block allocated for the call,
\* and the p padding bytes before A belong to no other live allocation.
C6_AlignedRangeInsideBlock ==
    (last.op = "alloc_aligned" /\ last.returned /\ last.block # None
       /\ last.addr > BlockGetPayloadAddress(last.block))
    => /\ last.addr + last.size
             <= BlockGetPayloadAddress(last.block) + hdr[last.block].size
       /\ \A l \in live :
             (l.addr # last.addr \/ l.size # last.size)
             => ~Overlap(l, [addr |-> BlockGetPayloadAddress(last.block),
                             size |-> last.addr - BlockGetPayloadAddress(last.block)])

\* C7: alloc_aligned(size, align) returns a multiple of align, for every
\* power-of-two align up to and including PAGE_SIZE.
C7_AlignedAddressIsAligned ==
    (last.op = "alloc_aligned" /\ last.returned) => last.addr % last.align = 0

-----------------------------------------------------------------------------
(* Frame allocator properties *)

FrameIndex(addr) == (addr - memmap[Owner(addr)].base) \div PAGE_SIZE

\* C2: allocate_page never returns a frame that is outstanding, nor a frame
\* inside the low pages install reserved for the bitmap of its region.
C2_AllocatePageFresh ==
    (badFrees = 0 /\ pmLast.op = "allocate_page" /\ pmLast.returned /\ pmLast.some)
    => /\ ~pmLast.was_outstanding
       /\ Owner(pmLast.addr) # 0
       /\ FrameIndex(pmLast.addr) >= Reserved(Owner(pmLast.addr))

\* C8: free_page(addr) of an outstanding frame of Usable entry E clears
\* exactly bit (addr - E.base) / PAGE_SIZE of E's bitmap, decrements
\* E.used_pages by one, returns without panicking and leaves the bitmap and
\* counters of every other entry unchanged.
C8_FreePageClearsItsBit ==
    [][(badFrees = 0 /\ pmLast'.op = "free_page" /\ pmLast'.was_outstanding
          /\ Owner(pmLast'.addr) # 0)
       => LET e == Owner(pmLast'.addr) IN
          /\ status' = "running"
          /\ bits'[e] = bits[e] \ {FrameIndex(pmLast'.addr)}
          /\ bitmaps'[e].used_pages = bitmaps[e].used_pages - 1
          /\ \A o \in 1..Len(memmap) :
                o # e => bits'[o] = bits[o] /\ bitmaps'[o] = bitmaps[o]]_vars

\* C9: each Usable entry's used_pages equals the number of set bits of its
\* bitmap, which equals the pages reserved at install plus the frames of
\* that region that are outstanding.
C9_UsedPagesCountsBits ==
    (badFrees = 0 /\ status = "running")
    => \A e \in 1..Len(memmap) :
          memmap[e].usable =>
             /\ bitmaps[e].used_pages = Cardinality(bits[e])
             /\ bitmaps[e].used_pages
                   = Reserved(e) + Cardinality({f \in outstanding : Owner(f) = e})

\* C10: free_page(addr) on a frame whose bitmap bit is already clear panics,
\* and leaves every bitmap and every used_pages counter unchanged.
C10_DoubleFreePanics ==
    [][(badFrees = 0 /\ pmLast'.op = "free_page" /\ Owner(pmLast'.addr) # 0
          /\ ~pmLast'.was_set)
       => /\ status' = "panicked"
          /\ bits' = bits
          /\ bitmaps' = bitmaps]_vars


\* C11: free_page(addr) with addr inside no Usable entry (below every base,
\* above every end, or inside a non-Usable entry) panics, clears no bit and
\* changes no used_pages counter.
C11_FreeUnownedPanics ==
    [][(badFrees = 0 /\ pmLast'.op = "free_page" /\ Owner(pmLast'.addr) = 0)
       => /\ status' = "panicked"
          /\ bits' = bits
          /\ bitmaps' = bitmaps]_vars

\* C12: allocate_page returns None exactly when every Usable entry is full;
\* otherwise it returns, without panicking, a frame of the first Usable entry
\* that is not full, at entry.base + index * PAGE_SIZE with index < total_pages.
NotFull == {e \in 1..Len(memmap) : memmap[e].usable /\ ~is_full(PmmState, e)}

C12_AllocatePageFirstNotFull ==
    [][(badFrees = 0 /\ pmLast'.op = "allocate_page")
       => /\ status' = "running"
          /\ pmLast'.some = (NotFull # {})
          /\ NotFull # {} =>
                LET e == CHOOSE e \in NotFull : \A o \in NotFull : e <= o IN
                \E index \in 0..(bitmaps[e].total_pages - 1) :
                   pmLast'.addr = memmap[e].base + index * PAGE_SIZE]_vars

\* C13, for N = 1: allocate_page returning a frame, free_page of that frame
\* and allocate_page again returns the same frame, and after the free_page
\* every used_pages counter is back at the value it had before the first
\* allocate_page.
C13_AllocFreeAllocSameFrame ==
    /\ (pmLast.op = "free_page" /\ pmLast.fresh /\ badFrees = 0)
          => status = "running" /\ UsedPages = pmLast.used_before
    /\ (pmLast.op = "allocate_page" /\ pmLast.expect # None /\ badFrees = 0)
          => pmLast.returned /\ pmLast.some /\ pmLast.addr = pmLast.expect

-----------------------------------------------------------------------------
(* Page table properties *)

\* ghost: the event that links a table was preceded, in the same call, by
\* the allocate_page that gave the table's frame and by its zeroing
LinkedAfterZeroing(events, j) ==
    \E a \in 1..(j - 1), z \in 1..(j - 1) :
       /\ a < z
       /\ events[a].kind = "allocate_page"
       /\ events[z].kind = "write_bytes"
       /\ events[a].at = MaskAddress(events[j].entry)
       /\ events[z].at = MaskAddress(events[j].entry)

\* C14: after map(root, v, p, flags) has returned, the walk with v's four
\* indexes finds Present entries at PML4, PML3 and PML2 and a PML1 entry
\* whose address field is p; every table the call linked was taken from the
\* frame allocator and zeroed before it was linked.
C14_MapMakesWalkReachFrame ==
    (pgLast.op = "map" /\ pgLast.returned)
       => /\ \A k \in 1..3 : HasBit(PageWalk(tables, pgLast.v)[k].low, PTE_PRESENT)
          /\ MaskAddress(PageWalk(tables, pgLast.v)[4]) = pgLast.p
          /\ \A j \in DOMAIN pgLast.events :
                pgLast.events[j].kind = "write"
                   => LinkedAfterZeroing(pgLast.events, j)

\* C15: unmap(root, v, p) of a page mapped to a frame of the frame allocator
\* returns without panicking, leaves the frame's bit clear in the bitmap of
\* the entry that holds the frame, and leaves v's PML1 entry not Present.
C15_UnmapReturnsTheFrame ==
    (pgLast.op = "unmap" /\ pgLast.was_mapped)
       => /\ pgLast.returned
          /\ FrameIndex(pgLast.frame) \notin bits[Owner(pgLast.frame)]
          /\ ~HasBit(PageWalk(tables, pgLast.v)[4].low, PTE_PRESENT)

\* C16: every map and unmap that returns has issued invlpg for its virtual
\* page after it wrote the PML1 entry.
C16_InvlpgAfterPml1Write ==
    (pgLast.op \in {"map", "unmap"} /\ pgLast.returned)
       => \E j \in DOMAIN pgLast.events :
             /\ pgLast.events[j].kind = "invlpg"
             /\ pgLast.events[j].at = pgLast.v
             /\ \A k \in DOMAIN pgLast.events :
                   pgLast.events[k].kind = "write_pml1" => k < j

\* C17: map(v, p); unmap(v, p); map(v, p) with a frame p of the frame
\* allocator: the unmap returns, the second map returns, and the page tables
\* are then what they were after the first map.
C17_MapUnmapMapSameTree ==
    /\ (pgLast.op = "unmap" /\ pgLast.round = 2 /\ pgLast.was_mapped)
          => pgLast.returned
    /\ (pgLast.op = "map" /\ pgLast.round = 3)
          => pgLast.returned /\ tables = pgLast.tree

\* ghost: the frame an entry written by map has to name: p for the PML1
\* entry, the frame just allocated and zeroed for an intermediate entry
FrameOfWrite(call, j) ==
    IF call.events[j].kind = "write_pml1" THEN call.p ELSE call.events[j - 1].at

\* C18: every entry map writes, the PML1 entry and each new intermediate
\* entry, has Present set, Writeable exactly when the flags contain
\* Writeable, User exactly when they contain UserAccessible, NotExecutable
\* exactly when they do not contain Executable, and the frame's address in
\* its address bits.
C18_MapEntryBits ==
    pgLast.op = "map"
       => \A j \in DOMAIN pgLast.events :
             pgLast.events[j].kind \in {"write", "write_pml1"}
                => LET entry == pgLast.events[j].entry IN
                   /\ HasBit(entry.low, PTE_PRESENT)
                   /\ HasBit(entry.low, PTE_WRITEABLE) = ("Writeable" \in pgLast.flags)
                   /\ HasBit(entry.low, PTE_USER_ACCESSIBLE)
                         = ("UserAccessible" \in pgLast.flags)
                   /\ entry.not_executable = ("Executable" \notin pgLast.flags)
                   /\ MaskAddress(entry) = FrameOfWrite(pgLast, j)
                   /\ entry = ReadEntry(tables, pgLast.events[j].at, pgLast.events[j].index)
                        \/ pgLast.events[j].kind = "write"

\* a map that built all three intermediate tables and wrote the PML1 entry,
\* with flags that ask for a user page that is neither writeable nor
\* executable
C18_Witness ==
    /\ pgLast.op = "map" /\ pgLast.returned
    /\ pgLast.flags = {"UserAccessible"}
    /\ Cardinality({j \in DOMAIN pgLast.events : pgLast.events[j].kind = "write"}) = 3
    /\ pgLast.events[Len(pgLast.events)].kind = "write_pml1"
    /\ pgLast.p \in outstanding

-----------------------------------------------------------------------------
(* Virtual memory manager properties *)

\* ghost: the least number of pages that hold size bytes and the list node
PagesFor(size) ==
    CHOOSE k \in 1..(size + NODE_SIZE) :
       (k - 1) * PAGE_SIZE < size + NODE_SIZE /\ size + NODE_SIZE <= k * PAGE_SIZE

\* C19: allocate_region(size) that returns, made with the cursor at c, has
\* mapped exactly pages = ceil((size + NODE_SIZE) / PAGE_SIZE) consecutive
\* pages from c on, each to a frame it took from the frame allocator, has
\* appended at c, as the new tail of the list, a record with base
\* c + NODE_SIZE, length pages * PAGE_SIZE and is_used = TRUE, has set the
\* cursor to c + pages * PAGE_SIZE, and returns that tail record.
C19_AllocateRegionMapsAndAppends ==
    (vmLast.op = "allocate_region" /\ vmLast.returned)
       => LET c == vmLast.cursor
              pages == PagesFor(vmLast.size)
          IN  /\ Len(vmLast.frames) = pages
              /\ \A i \in 1..pages :
                    /\ Mapped(tables, c + (i - 1) * PAGE_SIZE)
                    /\ MaskAddress(PageWalk(tables, c + (i - 1) * PAGE_SIZE)[4])
                          = vmLast.frames[i]
                    /\ vmLast.frames[i] \in outstanding
              /\ ~Mapped(tables, c + pages * PAGE_SIZE)
              /\ vmRegions.tail = c
              /\ c \in RegionNodes
              /\ vmNodes[c].next = None
              /\ vmNodes[c].data.base = c + NODE_SIZE
              /\ vmNodes[c].data.length = pages * PAGE_SIZE
              /\ vmNodes[c].data.is_used
              /\ cursor = c + pages * PAGE_SIZE
              /\ vmLast.ret = c + NEXT_PTR_SIZE

\* a second allocate_region, of a size that needs a second page for the
\* list node alone
C19_Witness ==
    /\ vmLast.op = "allocate_region" /\ vmLast.returned
    /\ vmLast.size = PAGE_SIZE - NODE_SIZE + 1
    /\ vmRegions.length = 2
    /\ vmRegions.head # vmRegions.tail

\* ghost: the range a region occupies, its list node included
RegionStart(node) == vmNodes[node].data.base - NODE_SIZE

RegionEnd(node) == RegionStart(node) + vmNodes[node].data.length

RegionsWithinCursor ==
    /\ cursor % PAGE_SIZE = 0
    /\ \A a \in RegionNodes :
          /\ KERNEL_HEAP_START <= RegionStart(a)
          /\ RegionStart(a) < RegionEnd(a)
          /\ RegionEnd(a) <= cursor
    /\ \A a, b \in RegionNodes :
          a # b => RegionEnd(a) <= RegionStart(b) \/ RegionEnd(b) <= RegionStart(a)
    /\ Cardinality(RegionNodes) = vmRegions.length

\* C20: after any sequence of allocate_region calls the cursor is page
\* aligned and was never decreased, the range
\* [base - NODE_SIZE, base - NODE_SIZE + length) of every region of the list
\* lies within [base_address, cursor), and the ranges of two regions are
\* disjoint.
C20_CursorAndRegionRanges ==
    []RegionsWithinCursor /\ [][cursor' >= cursor]_vars

\* three regions in the list, one of them longer than a page
C20_Witness ==
    /\ vmRegions.length = 3
    /\ \E a \in RegionNodes : vmNodes[a].data.length > PAGE_SIZE
    /\ status = "running"

\* ghost: the frames the Present entries of a set of tables name
NextTables(T, frames) ==
    {MaskAddress(T[f][i]) : <<f, i>> \in
        {<<f, i>> \in UNION {{f} \X DOMAIN T[f] : f \in frames \cap DOMAIN T} :
            HasBit(T[f][i].low, PTE_PRESENT)}}

\* ghost: the frames in use as page tables: the PML4 and the PML3, PML2 and
\* PML1 tables reached from it
TableFrames ==
    LET l3 == NextTables(tables, {ROOT})
        l2 == NextTables(tables, l3)
        l1 == NextTables(tables, l2)
    IN  {ROOT} \cup l3 \cup l2 \cup l1

\* ghost: the virtual pages of the regions of the list
RegionPages ==
    UNION {{RegionStart(a) + k * PAGE_SIZE :
               k \in 0..(vmNodes[a].data.length \div PAGE_SIZE - 1)} : a \in RegionNodes}

\* ghost: the frame a mapped page is mapped to
FrameOf(page) == MaskAddress(PageWalk(tables, page)[4])

\* C21: after any sequence of allocate_region calls every page of every
\* region of the list is mapped Present to a frame whose bit is set in the
\* bitmap of the Usable entry that holds it, no two such pages are mapped to
\* one frame, and no such frame is in use as a page table.
C21_RegionPagesBacked ==
    /\ \A page \in RegionPages :
          /\ Mapped(tables, page)
          /\ Owner(FrameOf(page)) # 0
          /\ FrameIndex(FrameOf(page)) \in bits[Owner(FrameOf(page))]
          /\ FrameOf(page) \notin TableFrames
    /\ \A p, q \in RegionPages : p # q => FrameOf(p) # FrameOf(q)

\* two regions, one of two pages, whose frames come from both Usable entries
C21_Witness ==
    /\ vmRegions.length = 2
    /\ Cardinality(RegionPages) = 3
    /\ Cardinality({Owner(FrameOf(page)) : page \in RegionPages}) = 2
    /\ status = "running"

(***************************************************************************)
(* The locks of the allocation path.  KERNEL_HEAP_ALLOCATOR,               *)
(* VIRTUAL_MEMORY_MANAGER and PHYSICAL_MEMORY_MANAGER are spin mutexes;    *)
(* a guard lives to the end of the statement that created it unless it is  *)
(* bound to a variable, and then to the end of the function.  What the     *)
(* heap, the tables and the frame allocator hold is abstracted: a block is *)
(* found or not, an entry is Present or not.                               *)
(***************************************************************************)
LockPages == 1..MaxLockPages

\* Mutex::lock: the request is recorded with the guards alive when it is
\* made; a spin mutex the caller already holds is never acquired
request(P, mutex) ==
    [P EXCEPT !.requested = mutex, !.held_before = P.held,
              !.held = IF InSeq(mutex, P.held) THEN @ ELSE Append(@, mutex)]

\* a guard is kept although its statement has ended
drop_guard_kept(held, mutex) == held

\* drop of a MutexGuard
drop_guard(held, mutex) == SelectSeq(held, LAMBDA m : m # mutex)

PathCommit(P, hung) ==
    /\ path' = P
    /\ status' = IF hung THEN "hung" ELSE status
    /\ UNCHANGED <<cell, cellLast>>
    /\ UNCHANGED heapVars
    /\ UNCHANGED pmmVars
    /\ UNCHANGED pagingVars
    /\ UNCHANGED vmmVars

Requesting(mutex, pc) ==
    PathCommit([request(path, mutex) EXCEPT !.pc = pc], InSeq(mutex, path.held))

\* GlobalAlloc::alloc: `let mut allocator = self.lock();`
GlobalAlloc_alloc ==
    /\ status = "running" /\ path.pc = "idle"
    /\ PathCommit([request(NoPath, "heap") EXCEPT !.pc = "alloc_aligned"], FALSE)

\* GlobalAlloc::dealloc: `let mut allocator = self.lock();`
GlobalAlloc_dealloc ==
    /\ status = "running" /\ path.pc = "idle"
    /\ PathCommit([request(NoPath, "heap") EXCEPT !.pc = "free"], FALSE)

\* dealloc: free runs and the function returns; allocator is dropped
DeallocReturns ==
    /\ status = "running" /\ path.pc = "free"
    /\ PathCommit([path EXCEPT !.pc = "idle", !.held = drop_guard(@, "heap")], FALSE)

\* alloc: alloc_aligned finds or bumps a block in a region it has, and the
\* function returns; allocator is dropped
AllocReturns ==
    /\ status = "running" /\ path.pc = "alloc_aligned"
    /\ PathCommit([path EXCEPT !.pc = "idle", !.held = drop_guard(@, "heap")], FALSE)

\* ExplicitFreeList::allocate_region: `self.vmm.as_mut().lock()`, and
\* VirtualMemoryManager::allocate_region up to its loop
HeapAllocateRegion(pages) ==
    /\ status = "running" /\ path.pc = "alloc_aligned"
    /\ PathCommit([request(path, "vmm") EXCEPT !.pc = "page", !.pages = pages, !.i = 0],
                  InSeq("vmm", path.held))

\* the loop of VirtualMemoryManager::allocate_region:
\* `PHYSICAL_MEMORY_MANAGER.lock()`
PageLock ==
    /\ status = "running" /\ path.pc = "page" /\ path.i < path.pages
    /\ Requesting("pmm", "allocate_page")

\* `.allocate_page().expect(..)`, the end of the statement, and the call of map
PageAllocated ==
    /\ status = "running" /\ path.pc = "allocate_page"
    /\ PathCommit([path EXCEPT !.pc = "get_next_level", !.level = 3,
                               !.held = drop_guard(@, "pmm")], FALSE)

\* get_next_level: the entry is Present
NextLevelPresent ==
    /\ status = "running" /\ path.pc = "get_next_level" /\ path.level > 0
    /\ PathCommit([path EXCEPT !.level = @ - 1], FALSE)

\* get_next_level: the entry is not Present, `PHYSICAL_MEMORY_MANAGER.lock()`
NextLevelLock ==
    /\ status = "running" /\ path.pc = "get_next_level" /\ path.level > 0
    /\ Requesting("pmm", "new_table")

\* get_next_level: `.allocate_page().expect(..)`, the end of the statement,
\* and the rest of the function
NextLevelAllocated ==
    /\ status = "running" /\ path.pc = "new_table"
    /\ PathCommit([path EXCEPT !.pc = "get_next_level", !.level = @ - 1,
                               !.allocated = @ + 1,
                               !.held = drop_guard(@, "pmm")], FALSE)

\* map: the write of the PML1 entry and log::debug!, which locks SERIAL_WRITER
MapLogs ==
    /\ status = "running" /\ path.pc = "get_next_level" /\ path.level = 0
    /\ Requesting("serial", "map_log")

\* serial::_write returns, map returns
MapReturns ==
    /\ status = "running" /\ path.pc = "map_log"
    /\ PathCommit([path EXCEPT !.pc = "page", !.i = @ + 1,
                               !.held = drop_guard(@, "serial")], FALSE)

\* VirtualMemoryManager::allocate_region after its loop, the end of the
\* statement at heap.rs 412, and log::info!
RegionLogs ==
    /\ status = "running" /\ path.pc = "page" /\ path.i = path.pages
    /\ PathCommit([request([path EXCEPT !.held = drop_guard(@, "vmm")], "serial")
                      EXCEPT !.pc = "region_log"], FALSE)

\* serial::_write returns, and ExplicitFreeList::allocate_region returns
\* into alloc_aligned
RegionReturns ==
    /\ status = "running" /\ path.pc = "region_log"
    /\ PathCommit([path EXCEPT !.pc = "alloc_aligned", !.pages = 0, !.i = 0,
                               !.allocated = 0,
                               !.held = drop_guard(@, "serial")], FALSE)

InitLocks == InitPmm

NextLocks ==
    \/ GlobalAlloc_alloc
    \/ GlobalAlloc_dealloc
    \/ DeallocReturns
    \/ AllocReturns
    \/ \E pages \in LockPages : HeapAllocateRegion(pages)
    \/ PageLock
    \/ PageAllocated
    \/ NextLevelPresent
    \/ NextLevelLock
    \/ NextLevelAllocated
    \/ MapLogs
    \/ MapReturns
    \/ RegionLogs
    \/ RegionReturns

SpecLocks == InitLocks /\ [][NextLocks]_vars

(***************************************************************************)
(* OnceCellMutex<T> (misc/utils.rs)                                        *)
(***************************************************************************)
CellValues == 1..MaxCellValue

\* OnceCell::get_or_init(|| Mutex::new(param)): the closure runs only when
\* the cell is empty
get_or_init(c, param) ==
    IF c.set THEN c ELSE [set |-> TRUE, value |-> param, locked |-> FALSE]

\* OnceCellMutex::set
OnceCellMutex_set(c, param) == get_or_init(c, param)

CellCommit(c, st, op, param) ==
    /\ cell' = c
    /\ status' = st
    /\ cellLast' = [op |-> op, param |-> param, before |-> cell, n |-> cellLast.n + 1]
    /\ UNCHANGED path
    /\ UNCHANGED heapVars
    /\ UNCHANGED pmmVars
    /\ UNCHANGED pagingVars
    /\ UNCHANGED vmmVars

CellSet(param) ==
    /\ status = "running" /\ cellLast.n < MaxCellCalls
    /\ CellCommit(OnceCellMutex_set(cell, param), "running", "set", param)

\* OnceCellMutex::lock: expect on the empty cell panics, Mutex::lock on the
\* locked mutex spins
CellLock ==
    /\ status = "running" /\ cellLast.n < MaxCellCalls
    /\ CellCommit(IF cell.set /\ ~cell.locked THEN [cell EXCEPT !.locked = TRUE] ELSE cell,
                  IF ~cell.set THEN "panicked" ELSE IF cell.locked THEN "hung" ELSE "running",
                  "lock", 0)

\* a store through the MutexGuard
GuardWrite(value) ==
    /\ status = "running" /\ cellLast.n < MaxCellCalls
    /\ cell.set /\ cell.locked
    /\ CellCommit([cell EXCEPT !.value = value], "running", "write", value)

\* drop of the MutexGuard
GuardDrop ==
    /\ status = "running" /\ cellLast.n < MaxCellCalls
    /\ cell.set /\ cell.locked
    /\ CellCommit([cell EXCEPT !.locked = FALSE], "running", "drop", 0)

InitCell == InitPmm

NextCell ==
    \/ \E param \in CellValues : CellSet(param)
    \/ CellLock
    \/ \E value \in CellValues : GuardWrite(value)
    \/ GuardDrop

SpecCell == InitCell /\ [][NextCell]_vars

\* the place of a mutex in the order heap, VMM, PMM
Rank(mutex) == CASE mutex = "heap" -> 1 [] mutex = "vmm" -> 2 [] mutex = "pmm" -> 3
                 [] OTHER -> 4

MemoryLocks == {"heap", "vmm", "pmm"}

\* C22: free_region(region) with the region of a node of the list returns
\* without panicking, leaves that node with is_used = FALSE, and detaches
\* that node and no other from the list.
C22_FreeRegionDetachesItsNode ==
    [][vmLast'.op = "free_region"
       => /\ status' = "running"
          /\ ~vmNodes'[vmLast'.ret].data.is_used
          /\ RegionNodes' = RegionNodes \ {vmLast'.ret}]_vars

\* C23: whenever the heap, VMM or PMM lock is requested, every one of these
\* three locks whose guard is alive at that moment comes earlier in the
\* order heap, VMM, PMM (so none is requested while it is held), and no
\* request spins for ever.
C23_LockOrder ==
    /\ status # "hung"
    /\ path.requested \in MemoryLocks
       => \A k \in 1..Len(path.held_before) :
             path.held_before[k] \in MemoryLocks
                => Rank(path.held_before[k]) < Rank(path.requested)

C23_Witness ==
    /\ path.pc = "new_table"
    /\ path.held = <<"heap", "vmm", "pmm">>
    /\ path.held_before = <<"heap", "vmm">>
    /\ path.i = 1
    /\ path.allocated = 3

\* C24: a set on a OnceCellMutex that is already initialised panics.
C24_SecondSetPanics ==
    (cellLast.op = "set" /\ cellLast.before.set) => status = "panicked"

\* ghost: some region holds the address between its payload start and its end
InsideSomeRegion(address) ==
    \E i \in 1..Len(regions) :
       /\ RegionGetPayloadAddress(regions[i]) <= address
       /\ address < RegionGetEndAddress(regions[i])

HeapUntouched == hdr' = hdr /\ regions' = regions /\ nxt' = nxt /\ prv' = prv

\* C25: a free of an address that lies in [payload start, end) of no region
\* returns, and leaves every block header, every total_allocated and every
\* free_blocks list as it was.
C25_StrayFreeIgnored ==
    [][(last'.op = "free" /\ ~InsideSomeRegion(last'.addr))
       => (status' = "running" /\ HeapUntouched)]_vars

C25_Witness ==
    /\ last.op = "free" /\ last.returned
    /\ ~InsideSomeRegion(last.addr)
    /\ Len(regions) = 2
    /\ \E i \in 1..Len(regions) : regions[i].length_ > 0
    /\ live # {}

\* C26: a free of a block's address that follows a free of the same address
\* that returned, with no call in between, panics or leaves the block
\* headers and the free_blocks lists (nodes, order, length) as the first
\* free left them.
C26_DoubleFreeIgnored ==
    [][(/\ last.op = "free" /\ last.returned /\ InsideSomeRegion(last.addr)
        /\ last'.op = "free" /\ last'.addr = last.addr)
       => (status' = "panicked" \/ (status' = "running" /\ HeapUntouched))]_vars

\* C27: alloc(0) and alloc(size) with size >= 2^16 panic and create no block.
C27_EdgeSizesPanic ==
    [][(last'.op = "alloc" /\ (last'.size = 0 \/ last'.size >= 65536))
       => (status' = "panicked" /\ hdr' = hdr)]_vars

\* C28: a heap call that allocates a region gets a block from
\* allocate_block / allocate_block_aligned on that region, never None.
C28_FreshRegionHoldsTheBlock ==
    [][(last'.op \in {"alloc", "alloc_aligned"} /\ Len(regions') > Len(regions))
       => last'.block # None]_vars

\* ghost: alloc(size) finds no free block to reuse
Bumps(size) ==
    AllocSearch(HeapState, size, 1, FirstHead(HeapState), Fuel(HeapState)).kind = "none"

TailRegion == regions[Len(regions)]

\* ghost: there is memory left for the region allocate_region(size) asks for
RegionFits(size) ==
    (cursor - KERNEL_HEAP_START) \div PAGE_SIZE + div_ceil(size + NODE_SIZE, PAGE_SIZE)
        <= heapLimit

RegionsWithinEnd ==
    \A i \in 1..Len(regions) :
       RegionGetPayloadAddress(regions[i]) + regions[i].total_allocated
           <= RegionGetEndAddress(regions[i])

ExactFitInTail ==
    [][(/\ last'.op = "alloc" /\ Bumps(last'.size) /\ Len(regions) > 0
        /\ RegionGetCurrentAddress(TailRegion) + 2 * BLOCK_HEADER_SIZE
               + Max(last'.size, LIST_NODE_SIZE) = RegionGetEndAddress(TailRegion))
       => (/\ status' = "running"
           /\ Len(regions') = Len(regions)
           /\ last'.block = RegionGetCurrentAddress(TailRegion))]_vars

BumpAfterFullTail ==
    [][(/\ last'.op = "alloc" /\ Bumps(last'.size) /\ Len(regions) > 0
        /\ RegionGetCurrentAddress(TailRegion) = RegionGetEndAddress(TailRegion)
        /\ RegionFits(last'.size))
       => (/\ status' = "running"
           /\ Len(regions') = Len(regions) + 1
           /\ last'.block = RegionGetPayloadAddress(regions'[Len(regions')]))]_vars

\* C29: a bump allocation whose block ends at the very end of the tail
\* region is placed in that region; the bump allocation after it allocates a
\* region and is placed at that region's payload start; and no region's
\* payload start plus total_allocated ever passes its end.
C29_ExactFit == []RegionsWithinEnd /\ ExactFitInTail /\ BumpAfterFullTail

\* ghost: the payload starts of the blocks of region i's stream that are
\* marked free
FreePayloads(i) ==
    {BlockGetPayloadAddress(b) : b \in {b \in Stream(regions, hdr, i) : ~hdr[b].is_used}}

\* C30: while the heap runs, the nodes of each region's free_blocks list are
\* the payload starts of the blocks of the region's stream marked
\* is_used = FALSE, each of them once: the list ends, and its length is the
\* number of these blocks.
C30_FreeListIsFreeBlocks ==
    status = "running"
       => \A i \in 1..Len(regions) :
             /\ ListNodes(regions, nxt, i) = FreePayloads(i)
             /\ WalkEnds(nxt, regions[i].head, Cardinality(DOMAIN nxt) + 1)
             /\ regions[i].length_ = Cardinality(FreePayloads(i))

\* ghost: the first free block on the lists, from region i and node on, whose
\* payload holds size bytes after the padding that brings its payload start
\* to a multiple of alignment
RECURSIVE FitSearch(_, _, _, _, _, _)
FitSearch(S, size, alignment, i, node, fuel) ==
    IF i > Len(S.regions) THEN [kind |-> "none"]
    ELSE IF node = None
    THEN IF i + 1 > Len(S.regions) THEN [kind |-> "none"]
         ELSE FitSearch(S, size, alignment, i + 1, S.regions[i + 1].head, Fuel(S))
    ELSE IF fuel = 0 THEN [kind |-> "hang"]
    ELSE LET block == node - BLOCK_HEADER_SIZE
             padding == align_up(BlockGetPayloadAddress(block), alignment)
                            - BlockGetPayloadAddress(block)
         IN  IF ~S.hdr[block].is_used /\ S.hdr[block].size >= size + padding
             THEN [kind |-> "found", region |-> i, block |-> block, padding |-> padding]
             ELSE FitSearch(S, size, alignment, i, S.nxt[node], fuel - 1)

FirstFit(size, alignment) ==
    FitSearch(HeapState, size, alignment, 1, FirstHead(HeapState), Fuel(HeapState))

ServedFrom(fit) ==
    /\ status' = "running"
    /\ last'.block = fit.block
    /\ last'.addr = BlockGetPayloadAddress(fit.block) + fit.padding
    /\ hdr'[fit.block].is_used
    /\ BlockGetPayloadAddress(fit.block) \notin ListNodes(regions', nxt', fit.region)
    /\ Len(regions') = Len(regions)
    /\ \A i \in 1..Len(regions) : regions'[i].total_allocated = regions[i].total_allocated

\* C31: when a free block on the lists has room for size bytes after the
\* padding to the next multiple of align, alloc_aligned(size, align) takes the
\* first such block: it unlinks it, marks it used and returns its payload
\* start plus the padding, and bumps nothing.
C31_AlignedReusesFirstFit ==
    [][(last'.op = "alloc_aligned"
        /\ FirstFit(last'.size, last'.align).kind = "found")
       => ServedFrom(FirstFit(last'.size, last'.align))]_vars

\* C32: every block of every region's stream starts at a multiple of 8, and
\* so does every region's bump cursor, whatever sizes were asked for.
C32_BlocksAligned ==
    \A i \in 1..Len(regions) :
       /\ RegionGetCurrentAddress(regions[i]) % 8 = 0
       /\ \A b \in Stream(regions, hdr, i) : b % 8 = 0

RightHeader(b) == b + BLOCK_HEADER_SIZE + hdr[b].size

\* C33: every block of every region's stream, used or free, has a right
\* header, at block address + header size + payload size, that holds the
\* size and the is_used value of its left header.
C33_HeadersInSync ==
    \A i \in 1..Len(regions) :
       \A b \in Stream(regions, hdr, i) :
          /\ RightHeader(b) \in DOMAIN hdr
          /\ hdr[RightHeader(b)] = hdr[b]

\* ghost: where the walk of HeapRegionIterator stops
RECURSIVE StreamEnd(_, _, _)
StreamEnd(hd, current_address, end_address) ==
    IF current_address >= end_address \/ current_address \notin DOMAIN hd
    THEN current_address
    ELSE StreamEnd(hd, current_address + hd[current_address].size + 2 * BLOCK_HEADER_SIZE,
                   end_address)

\* C34: the walk of a region from its payload start by steps of payload size
\* + 2 header sizes lands on payload start + total_allocated, and each
\* block it visits ends, right header included, where the next block or
\* the bump cursor begins.
C34_StreamTiles ==
    \A i \in 1..Len(regions) :
       /\ StreamEnd(hdr, RegionGetPayloadAddress(regions[i]),
                    RegionGetCurrentAddress(regions[i]))
              = RegionGetCurrentAddress(regions[i])
       /\ \A b \in Stream(regions, hdr, i) :
             /\ RightHeader(b) \in DOMAIN hdr
             /\ BlockEnd(hdr, b) \in Stream(regions, hdr, i)
                                       \cup {RegionGetCurrentAddress(regions[i])}

C34_Witness ==
    /\ status = "running"
    /\ last.op = "free"
    /\ \E i \in 1..Len(regions) :
          /\ Cardinality(Stream(regions, hdr, i)) = 2
          /\ regions[i].total_allocated = 144
          /\ \E b \in Stream(regions, hdr, i) : ~hdr[b].is_used /\ hdr[b].size = 72

\* C35: in the Bitmap of every Usable entry, of whatever length,
\* used_pages is at least 0 and at most total_pages, after install and
\* after every allocate_page and free_page.
C35_UsedPagesWithinTotal ==
    \A e \in 1..Len(memmap) :
       memmap[e].usable
          => /\ bitmaps[e].used_pages >= 0
             /\ bitmaps[e].used_pages <= bitmaps[e].total_pages

\* ghost: the walk for a virtual address finds an entry that is not Present
\* at PML4, PML3 or PML2
IntermediateAbsent(T, virtual_addr) ==
    \E k \in 1..3 :
       /\ \A j \in 1..(k - 1) : HasBit(PageWalk(T, virtual_addr)[j].low, PTE_PRESENT)
       /\ ~HasBit(PageWalk(T, virtual_addr)[k].low, PTE_PRESENT)

\* C36: unmap of a virtual address whose PML4, PML3 or PML2 entry is not
\* Present panics, and leaves the page tables and the frame allocator's
\* bitmaps as they were: no frame is allocated, none is freed and no entry
\* is written.
C36_UnmapOfAbsentPanics ==
    [][(/\ pgLast'.n # pgLast.n /\ pgLast'.op = "unmap"
        /\ IntermediateAbsent(tables, pgLast'.v))
       => (/\ status' = "panicked"
           /\ tables' = tables
           /\ bits' = bits
           /\ bitmaps' = bitmaps
           /\ outstanding' = outstanding
           /\ pgLast'.events = <<>>)]_vars

C36_Witness ==
    /\ status = "panicked"
    /\ pgLast.op = "unmap"
    /\ pgLast.v = KERNEL_HEAP_START + 2 ^ 21
    /\ IntermediateAbsent(tables, pgLast.v)
    /\ HasBit(PageWalk(tables, pgLast.v)[2].low, PTE_PRESENT)
    /\ Mapped(tables, KERNEL_HEAP_START)

\* ghost: the nodes of a list in order, from a node on
RECURSIVE ListSeqFrom(_, _, _)
ListSeqFrom(nx, node, fuel) ==
    IF node = None \/ fuel = 0 THEN <<>>
    ELSE <<node>> \o ListSeqFrom(nx, nx[node], fuel - 1)

ListSeq(rs, nx, i) == ListSeqFrom(nx, rs[i].head, Cardinality(DOMAIN nx) + 1)

\* ghost: the free block alloc(size) takes from the lists
Reused(size) ==
    AllocSearch(HeapState, size, 1, FirstHead(HeapState), Fuel(HeapState))

Without(seq, node) == SelectSeq(seq, LAMBDA n : n # node)

\* C37: when alloc takes a block from a free_blocks list that ends (so
\* remove_from_free_list is called with a block on the list), the list
\* afterwards is the list before without that block's node, the other nodes
\* in their order, and length is one less.
C37_RemoveUnlinksItsNode ==
    [][(/\ last'.op = "alloc"
        /\ Reused(last'.size).kind = "found"
        /\ WalkEnds(nxt, regions[Reused(last'.size).region].head,
                    Cardinality(DOMAIN nxt) + 1))
       => (/\ ListSeq(regions', nxt', Reused(last'.size).region)
                = Without(ListSeq(regions, nxt, Reused(last'.size).region),
                          BlockGetPayloadAddress(Reused(last'.size).block))
           /\ regions'[Reused(last'.size).region].length_
                = regions[Reused(last'.size).region].length_ - 1)]_vars

\* ghost: the entry allocate_page calls get_free_index on
FirstNotFull == CHOOSE e \in NotFull : \A o \in NotFull : e <= o

\* C38: get_free_index, called by allocate_page on a bitmap with
\* used_pages < total_pages, ends and returns an index below total_pages
\* whose bit was clear when it was called.
C38_GetFreeIndexFindsClearBit ==
    [][(/\ pmLast'.op = "allocate_page" /\ pmLast' # pmLast
        /\ NotFull # {}
        /\ bitmaps[FirstNotFull].used_pages < bitmaps[FirstNotFull].total_pages)
       => (/\ status' = "running"
           /\ pmLast'.some
           /\ \E index \in 0..(bitmaps[FirstNotFull].total_pages - 1) :
                 /\ pmLast'.addr = memmap[FirstNotFull].base + index * PAGE_SIZE
                 /\ index \notin bits[FirstNotFull])]_vars

\* ghost: the free_blocks list of region i is well formed
WellFormed(i) ==
    LET nodes == ListSeq(regions, nxt, i) IN
    /\ WalkEnds(nxt, regions[i].head, Cardinality(DOMAIN nxt) + 1)
    /\ regions[i].length_ = Len(nodes)
    /\ Cardinality(ListNodes(regions, nxt, i)) = Len(nodes)
    /\ regions[i].tail = (IF nodes = <<>> THEN None ELSE nodes[Len(nodes)])
    /\ nodes # <<>> => (prv[nodes[1]] = None /\ nxt[nodes[Len(nodes)]] = None)
    /\ \A k \in 1..(Len(nodes) - 1) : prv[nodes[k + 1]] = nodes[k]

\* C39: while the heap runs, each region's free_blocks list is acyclic,
\* length is the number of nodes reachable from head, tail is the last of
\* them, head.prev and tail.next are None, and n.next.prev = n for every node
\* n with a successor.
C39_FreeListsWellFormed ==
    status = "running" => \A i \in 1..Len(regions) : WellFormed(i)

\* ghost: the entries the walk for a virtual address reads, as <<table
\* frame, index>>
PathCells(T, virtual_addr) ==
    LET ix == get_indexes(virtual_addr)
        w == PageWalk(T, virtual_addr)
    IN  {<<ROOT, ix[1]>>, <<MaskAddress(w[1]), ix[2]>>,
         <<MaskAddress(w[2]), ix[3]>>, <<MaskAddress(w[3]), ix[4]>>}

\* ghost: the entries that differ between two memories
ChangedCells(T, U) ==
    UNION {{<<f, i>> : i \in {i \in (IF f \in DOMAIN T THEN DOMAIN T[f] ELSE {})
                                    \cup (IF f \in DOMAIN U THEN DOMAIN U[f] ELSE {}) :
                                ReadEntry(T, f, i) # ReadEntry(U, f, i)}}
           : f \in DOMAIN T \cup DOMAIN U}

\* ghost: level k of the walk is reached through Present entries and is
\* Present
PresentAt(T, virtual_addr, k) ==
    \A j \in 1..k : HasBit(PageWalk(T, virtual_addr)[j].low, PTE_PRESENT)

\* C40: map(root, v, p, flags) writes only entries on v's path; an
\* intermediate entry of the path that was Present keeps its value; and
\* every other mapped page keeps its translation.
C40_MapTouchesOnlyItsPath ==
    [][(pgLast'.n # pgLast.n /\ pgLast'.op = "map")
       => (/\ ChangedCells(tables, tables') \subseteq PathCells(tables', pgLast'.v)
           /\ \A k \in 1..3 :
                 PresentAt(tables, pgLast'.v, k)
                    => PageWalk(tables', pgLast'.v)[k] = PageWalk(tables, pgLast'.v)[k]
           /\ \A other \in VAddrs \ {pgLast'.v} :
                 Mapped(tables, other)
                    => /\ Mapped(tables', other)
                       /\ PageWalk(tables', other)[4] = PageWalk(tables, other)[4])]_vars

====
